---- MODULE Spec2Model ----
(***************************************************************************)
(* Model of the Telegram auto-sender front end and its auth function:      *)
(*   - TelegramAPI (credential validation, phone formatting, the three     *)
(*     fetch wrappers),                                                    *)
(*   - the telegram-auth edge function (serve, sendVerificationCode,       *)
(*     verifyCode, checkPassword),                                         *)
(*   - the AccountSetup page (connect / verify code / verify password /    *)
(*     cancel / disconnect),                                               *)
(*   - the Dashboard page (toggleSender),                                  *)
(*   - App (page navigation, which mounts and unmounts the pages).         *)
(* Strings are sequences of one-character strings, so that the regular     *)
(* expressions, trim and formatPhoneNumber are computed character by       *)
(* character.                                                              *)
(***************************************************************************)
EXTENDS Integers, Sequences, FiniteSets, TLC

VARIABLES
  currentPage,       \* App: the page that is mounted
  account,           \* AccountSetup: useState<TelegramAccount>
  loading,           \* AccountSetup: loading
  verificationCode,  \* AccountSetup: verificationCode
  showVerification,  \* AccountSetup: showVerification
  twoFactorPassword, \* AccountSetup: twoFactorPassword
  showTwoFactor,     \* AccountSetup: showTwoFactor
  validationErrors,  \* AccountSetup: validationErrors
  accountLoadPending,\* AccountSetup: loadAccountData of the mount effect not yet resolved
  toast,             \* the toast emitted by the last step (NoToast if it emitted none)
  authOps,           \* the auth handlers that are suspended at an await
  dbAccounts,        \* blink.db.telegramAccounts rows of the user, in list order
  dbSettings,        \* blink.db.userSettings rows of the user, in list order
  stats,             \* Dashboard: stats.isRunning
  dashLoading,       \* Dashboard: loading (the skeleton is rendered while true)
  toggles,           \* the toggleSender calls that are suspended at an await
  httpResponse,      \* the last response of the edge function to a direct HTTP client
  codeSentFor,       \* history: credentials for which send_code has answered success to that client
  settings,          \* Settings: useState<UserSettings>
  settingsLoading,   \* Settings: loading (the skeleton is rendered while true)
  saving,            \* Settings: saving
  saveOps,           \* the saveSettings calls that are suspended at an await
  dbTemplates,       \* blink.db.messageTemplates rows of the user, newest first
  templates,         \* MessageTemplates: templates
  tplLoading,        \* MessageTemplates: loading
  tplLoadPending,    \* MessageTemplates: a loadTemplates call has not resolved yet
  showAddDialog,     \* MessageTemplates: showAddDialog
  newTemplate,       \* MessageTemplates: newTemplate
  editingTemplate,   \* MessageTemplates: editingTemplate (<< >> is null)
  tplOps,            \* the template handlers that are suspended at an await
  nextTemplateId,    \* the id that messageTemplates.create gives to the next row
  passwordAskedFor,  \* history: credentials for which verify_code has answered requiresPassword to that client
  dbGroups,          \* blink.db.telegramGroups rows of the user, oldest first
  dbBlacklist,       \* blink.db.blacklistedGroups: the ids of the blacklisted groups
  consecutiveFailures, \* the scheduler's failure counter of each group
  schedulers,        \* the scheduler loops that are active
  dbLogs             \* blink.db.messageLogs rows of the user, oldest first

vars == <<currentPage, account, loading, verificationCode, showVerification,
          twoFactorPassword, showTwoFactor, validationErrors, accountLoadPending,
          toast, authOps, dbAccounts, dbSettings, stats, dashLoading, toggles,
          httpResponse, codeSentFor, settings, settingsLoading, saving, saveOps,
          dbTemplates, templates, tplLoading, tplLoadPending, showAddDialog,
          newTemplate, editingTemplate, tplOps, nextTemplateId,
          passwordAskedFor, dbGroups, dbBlacklist, consecutiveFailures,
          schedulers, dbLogs>>

accountVars == <<account, loading, verificationCode, showVerification,
                 twoFactorPassword, showTwoFactor, validationErrors,
                 accountLoadPending>>

dashVars == <<stats, dashLoading>>

settingsVars == <<settings, settingsLoading, saving, saveOps>>

templateVars == <<dbTemplates, templates, tplLoading, tplLoadPending,
                  showAddDialog, newTemplate, editingTemplate, tplOps,
                  nextTemplateId>>

dispatchVars == <<dbGroups, dbBlacklist, consecutiveFailures, schedulers,
                  dbLogs>>

(***************************************************************************)
(* Bounds                                                                  *)
(***************************************************************************)
\* auth handlers suspended at the same time (a second one needs a remount)
MaxAuthOps == 1

\* toggleSender calls suspended at the same time
MaxToggles == 2

\* session strings the edge function can generate
MaxSessions == 1

\* saveSettings calls suspended at the same time
MaxSaves == 1

\* template handlers suspended at the same time
MaxTplOps == 1

\* rows that messageTemplates.create can make
MaxTemplateIds == 2

\* rows of messageLogs
MaxLogEntries == 4

(***************************************************************************)
(* Strings                                                                 *)
(***************************************************************************)
Digit == {"0", "1", "2", "3", "4", "5", "6", "7", "8", "9"}

HexLower == Digit \cup {"a", "b", "c", "d", "e", "f"}

Whitespace == {" "}

Empty == << >>

None == "none"

\* /^\d+$/
IsNumeric(s) == Len(s) >= 1 /\ \A i \in 1..Len(s) : s[i] \in Digit

\* /^[a-f0-9]{32}$/
IsApiHash(s) == Len(s) = 32 /\ \A i \in 1..Len(s) : s[i] \in HexLower

\* /^\+\d{10,15}$/
IsPhone(s) ==
  /\ Len(s) >= 11
  /\ Len(s) <= 16
  /\ s[1] = "+"
  /\ \A i \in 2..Len(s) : s[i] \in Digit

\* IsCode without the length
IsCode_NoLength(s) == Len(s) >= 1 /\ \A i \in 1..Len(s) : s[i] \in Digit

\* /^\d{5}$/
IsCode(s) == Len(s) = 5 /\ \A i \in 1..Len(s) : s[i] \in Digit

RECURSIVE trimStart(_)
trimStart(s) ==
  IF s = Empty THEN Empty
  ELSE IF Head(s) \in Whitespace THEN trimStart(Tail(s)) ELSE s

RECURSIVE trimEnd(_)
trimEnd(s) ==
  IF s = Empty THEN Empty
  ELSE IF s[Len(s)] \in Whitespace THEN trimEnd(SubSeq(s, 1, Len(s) - 1)) ELSE s

\* trim that removes nothing
trim_Nothing(s) == s

\* String.prototype.trim
trim(s) == trimEnd(trimStart(s))

\* e.target.value.replace(/\D/g, '').slice(0, 5)
codeInput(raw) ==
  LET digits == SelectSeq(raw, LAMBDA c : c \in Digit)
  IN  SubSeq(digits, 1, IF Len(digits) < 5 THEN Len(digits) ELSE 5)

(***************************************************************************)
(* TelegramAPI: pure helpers                                               *)
(***************************************************************************)
\* formatPhoneNumber that always adds the +
formatPhoneNumber_AlwaysPrefix(phone) ==
  <<"+">> \o SelectSeq(phone, LAMBDA c : c \in Digit \cup {"+"})

formatPhoneNumber(phone) ==
  LET cleaned == SelectSeq(phone, LAMBDA c : c \in Digit \cup {"+"})
  IN  IF cleaned # Empty /\ cleaned[1] = "+" THEN cleaned ELSE <<"+">> \o cleaned

ErrApiIdRequired == "API ID is required"
ErrApiIdNumeric == "API ID must be numeric (e.g., 1234567)"
ErrApiIdLength == "API ID should be 6-8 digits long"
ErrApiHashRequired == "API Hash is required"
ErrApiHashFormat == "API Hash must be exactly 32 hexadecimal characters (a-f, 0-9)"
ErrPhoneRequired == "Phone number is required"
ErrPhoneFormat == "Phone number must include country code (e.g., +1234567890)"

\* apiIdErrors without the length rule
apiIdErrors_NoLength(apiId) ==
  IF apiId = Empty THEN <<ErrApiIdRequired>>
  ELSE IF ~IsNumeric(apiId) THEN <<ErrApiIdNumeric>>
  ELSE << >>

apiIdErrors(apiId) ==
  IF apiId = Empty THEN <<ErrApiIdRequired>>
  ELSE IF ~IsNumeric(apiId) THEN <<ErrApiIdNumeric>>
  ELSE IF Len(apiId) < 6 \/ Len(apiId) > 8 THEN <<ErrApiIdLength>>
  ELSE << >>

\* apiHashErrors without the format rule
apiHashErrors_NoFormat(apiHash) ==
  IF apiHash = Empty THEN <<ErrApiHashRequired>>
  ELSE << >>

apiHashErrors(apiHash) ==
  IF apiHash = Empty THEN <<ErrApiHashRequired>>
  ELSE IF ~IsApiHash(apiHash) THEN <<ErrApiHashFormat>>
  ELSE << >>

phoneErrors(phoneNumber) ==
  IF phoneNumber = Empty THEN <<ErrPhoneRequired>>
  ELSE IF ~IsPhone(phoneNumber) THEN <<ErrPhoneFormat>>
  ELSE << >>

\* validateCredentials without the rules of the API hash
validateCredentials_SkipsApiHash(credentials) ==
  LET errors == apiIdErrors(credentials.apiId)
                \o phoneErrors(credentials.phoneNumber)
  IN  [isValid |-> errors = << >>, errors |-> errors]

validateCredentials(credentials) ==
  LET errors == apiIdErrors(credentials.apiId)
                \o apiHashErrors(credentials.apiHash)
                \o phoneErrors(credentials.phoneNumber)
  IN  [isValid |-> errors = << >>, errors |-> errors]

(***************************************************************************)
(* The telegram-auth edge function                                         *)
(***************************************************************************)
\* no session string (undefined, null or '')
NoSession == 0

\* no user object (undefined or null); a user object is <<[phone |-> ...]>>,
\* its other fields are the same in every response
NoUser == << >>

\* a TelegramAuthResponse; None, NoSession, NoUser stand for absent fields
Response(success, message, error, requiresPassword, sessionString, user) ==
  [success |-> success, message |-> message, error |-> error,
   requiresPassword |-> requiresPassword, sessionString |-> sessionString,
   user |-> user]

Failure(message, error) == Response(FALSE, message, error, FALSE, NoSession, NoUser)

\* the 4xx/5xx bodies of serve carry only success and error
HttpError(status, error) == [status |-> status, body |-> Failure(None, error)]

FixturePhone == <<"+", "1", "2", "3", "4", "5", "6", "7", "8", "9", "0">>

FixtureApiId == <<"1", "2", "3", "4", "5">>

CodeInvalid == <<"1", "2", "3", "4", "5">>

CodeNeedsPassword == <<"5", "4", "3", "2", "1">>

WrongPassword == <<"w", "r", "o", "n", "g", "p", "a", "s", "s", "w", "o", "r", "d">>

sendVerificationCode(apiId, apiHash, phoneNumber) ==
  IF ~IsNumeric(apiId)
    THEN Failure("Invalid API ID format. Must be numeric.", "INVALID_API_ID")
  ELSE IF ~IsApiHash(apiHash)
    THEN Failure("Invalid API Hash format. Must be 32 character hexadecimal string.",
                 "INVALID_API_HASH")
  ELSE IF ~IsPhone(phoneNumber)
    THEN Failure("Invalid phone number format. Must include country code (e.g., +1234567890).",
                 "INVALID_PHONE")
  ELSE IF apiId = FixtureApiId
    THEN Failure("Invalid API credentials. Please check your API ID and Hash.",
                 "INVALID_CREDENTIALS")
  ELSE IF phoneNumber = FixturePhone
    THEN Failure("Phone number not registered with Telegram.", "PHONE_NOT_REGISTERED")
  ELSE Response(TRUE,
                "Verification code sent successfully. Please check your Telegram app.",
                None, FALSE, NoSession, NoUser)

\* session is the generated `session_${Date.now()}_${random}` string
verifyCode(apiId, apiHash, phoneNumber, code, session) ==
  IF ~IsCode(code)
    THEN Failure("Invalid verification code format. Must be 5 digits.",
                 "INVALID_CODE_FORMAT")
  ELSE IF code = CodeInvalid
    THEN Failure("Invalid verification code. Please try again.", "INVALID_CODE")
  ELSE IF code = CodeNeedsPassword
    THEN Response(FALSE,
                  "Two-factor authentication is enabled. Please enter your password.",
                  "REQUIRES_PASSWORD", TRUE, NoSession, NoUser)
  ELSE Response(TRUE, "Successfully authenticated with Telegram!", None, FALSE,
                session, <<[phone |-> phoneNumber]>>)

\* checkPassword without the rejected password
checkPassword_AcceptsAny(apiId, apiHash, password, sessionString, session) ==
  Response(TRUE, "Successfully authenticated with two-factor authentication!",
           None, FALSE, session, <<[phone |-> FixturePhone]>>)

checkPassword(apiId, apiHash, password, sessionString, session) ==
  IF password = WrongPassword
    THEN Failure("Invalid two-factor authentication password.", "INVALID_PASSWORD")
  ELSE Response(TRUE, "Successfully authenticated with two-factor authentication!",
                None, FALSE, session, <<[phone |-> FixturePhone]>>)

\* a request body; an absent string field is the empty string (both are falsy)
Request(action, apiId, apiHash, phoneNumber, code, password, sessionString) ==
  [action |-> action, apiId |-> apiId, apiHash |-> apiHash,
   phoneNumber |-> phoneNumber, code |-> code, password |-> password,
   sessionString |-> sessionString]

\* the POST branch of serve
serve(req, session) ==
  IF req.apiId = Empty \/ req.apiHash = Empty
    THEN HttpError(400, "API ID and API Hash are required")
  ELSE IF req.action = "send_code"
    THEN IF req.phoneNumber = Empty
           THEN HttpError(400, "Phone number is required")
           ELSE [status |-> 200,
                 body |-> sendVerificationCode(req.apiId, req.apiHash, req.phoneNumber)]
  ELSE IF req.action = "verify_code"
    THEN IF req.code = Empty \/ req.phoneNumber = Empty
           THEN HttpError(400, "Verification code and phone number are required")
           ELSE [status |-> 200,
                 body |-> verifyCode(req.apiId, req.apiHash, req.phoneNumber,
                                     req.code, session)]
  ELSE IF req.action = "check_password"
    THEN IF req.password = Empty
           THEN HttpError(400, "Password is required")
           ELSE [status |-> 200,
                 body |-> checkPassword(req.apiId, req.apiHash, req.password,
                                        req.sessionString, session)]
  ELSE HttpError(400, "Invalid action")

(***************************************************************************)
(* TelegramAPI: the fetch wrappers.  netOk is whether fetch resolves.      *)
(***************************************************************************)
NetworkError ==
  Failure("Network error. Please check your internet connection and try again.",
          "NETWORK_ERROR")

fetchJson(req, netOk, session) ==
  IF ~netOk THEN NetworkError
  ELSE LET response == serve(req, session)
       IN  IF response.status # 200 THEN NetworkError ELSE response.body

apiSendVerificationCode(credentials, netOk, session) ==
  fetchJson(Request("send_code", credentials.apiId, credentials.apiHash,
                    credentials.phoneNumber, Empty, Empty, Empty),
            netOk, session)

apiVerifyCode(credentials, code, netOk, session) ==
  fetchJson(Request("verify_code", credentials.apiId, credentials.apiHash,
                    credentials.phoneNumber, code, Empty, Empty),
            netOk, session)

apiCheckPassword(credentials, password, sessionString, netOk, session) ==
  fetchJson(Request("check_password", credentials.apiId, credentials.apiHash,
                    Empty, Empty, password, sessionString),
            netOk, session)

(***************************************************************************)
(* Inputs                                                                  *)
(***************************************************************************)
ValidApiId == <<"1", "2", "3", "4", "5", "6", "7">>

ValidApiHash == [i \in 1..32 |-> IF i % 2 = 0 THEN "a" ELSE "0"]

ValidPhone == <<"+", "1", "2", "3", "4", "5", "6", "7", "8", "9", "0", "1">>

\* what the operator types into the API ID field
ApiIdInputs == {Empty, FixtureApiId, ValidApiId, <<" ">> \o ValidApiId, <<"1", "2", "a">>}

\* what the operator types into the API Hash field
ApiHashInputs == {ValidApiHash, [i \in 1..32 |-> IF i = 1 THEN "A" ELSE "0"]}

\* what the operator types into the phone field
PhoneInputs == {ValidPhone, FixturePhone, Tail(ValidPhone)}

\* API IDs, API hashes and raw phone numbers for the validation of the form
FormApiIdInputs ==
  ApiIdInputs \cup {<<"1", "2", "3", "4", "5", "6", "7", "8", "9">>}

FormApiHashInputs == ApiHashInputs \cup {Empty, <<"0", "a">>}

PhoneRawInputs ==
  {ValidPhone, Tail(ValidPhone), Empty, <<"1", "+", "2">>, <<"+", "+", "1">>,
   <<"a">>, <<"+", "1", " ", "(", "2", "3", "4", ")", " ", "5", "6", "7", "-",
     "8", "9", "0", "1">>}

\* what the operator types into the verification code field
CodeInputs == {CodeInvalid, CodeNeedsPassword, <<"1", "1", "1", "1", "1">>,
               <<"1", "2", "x">>}

\* what the operator types into the two-factor password field
PasswordInputs == {<<" ">>, WrongPassword, <<"p", "w">>}

SessionStrings == 1..MaxSessions

Pages == {"dashboard", "account"}

\* the pages of renderPage that are modelled
AllPages == {"dashboard", "account", "settings", "templates", "groups"}

(***************************************************************************)
(* State                                                                   *)
(***************************************************************************)
\* AccountSetup: the initial useState values
InitialAccount ==
  [apiId |-> Empty, apiHash |-> Empty, phoneNumber |-> Empty,
   isConnected |-> FALSE, sessionString |-> NoSession, user |-> NoUser]

NoToast == [kind |-> None, message |-> None]

ToastError(message) == [kind |-> "error", message |-> message]

ToastSuccess(message) == [kind |-> "success", message |-> message]

TelegramCredentials(apiId, apiHash, phoneNumber) ==
  [apiId |-> apiId, apiHash |-> apiHash, phoneNumber |-> phoneNumber]

NoCredentials == TelegramCredentials(Empty, Empty, Empty)

NoHttpResponse == [status |-> 0, action |-> None, credentials |-> NoCredentials,
                   known |-> FALSE, asked |-> FALSE, body |-> Failure(None, None)]

\* a handler of AccountSetup suspended at an await: phase "net" is the first
\* await of the try block, phase "db" the await of the storage write; live is
\* whether the component instance that started it is still mounted
AuthOp(op, credentials, code, password, sessionString) ==
  [op |-> op, phase |-> "net", credentials |-> credentials, code |-> code,
   password |-> password, sessionString |-> sessionString,
   result |-> Failure(None, None), hadRow |-> FALSE, live |-> TRUE]

\* an absent number (undefined)
NoValue == << >>

\* the initial state of Settings
InitialSettings ==
  [groupDelay |-> 7, cycleDelay |-> 75, maxRetries |-> 3, isRunning |-> "0",
   enableNotifications |-> "1", autoBlacklist |-> "1", rateLimitBuffer |-> <<10>>]

\* the initial state of the Add Template dialog
InitialNewTemplate == [name |-> Empty, content |-> Empty]

\* the state of the login challenge that the page shows
AuthState ==
  IF account.isConnected THEN "Authenticated"
  ELSE IF showVerification /\ showTwoFactor THEN "AwaitingPassword"
  ELSE IF showVerification THEN "CodeSent"
  ELSE "Unauthenticated"

\* the stored account holds a session
StorageAuthenticated == dbAccounts # << >> /\ dbAccounts[1].isConnected = "1"

\* the stored settings say that the sender runs
StorageRunning == dbSettings # << >> /\ dbSettings[1].isRunning = "1"

\* the verification card is rendered
VerificationCardShown == currentPage = "account" /\ showVerification /\ ~account.isConnected

Init ==
  /\ currentPage = "dashboard"
  /\ account = InitialAccount
  /\ loading = FALSE
  /\ verificationCode = Empty
  /\ showVerification = FALSE
  /\ twoFactorPassword = Empty
  /\ showTwoFactor = FALSE
  /\ validationErrors = << >>
  /\ accountLoadPending = FALSE
  /\ toast = NoToast
  /\ authOps = << >>
  /\ dbAccounts = << >>
  /\ dbSettings = << >>
  /\ stats = [isRunning |-> FALSE]
  /\ dashLoading = TRUE
  /\ toggles = << >>
  /\ httpResponse = NoHttpResponse
  /\ codeSentFor = {}
  /\ passwordAskedFor = {}
  /\ dbGroups = << >>
  /\ dbBlacklist = {}
  /\ consecutiveFailures = << >>
  /\ schedulers = << >>
  /\ dbLogs = << >>
  /\ settings = InitialSettings
  /\ settingsLoading = TRUE
  /\ saving = FALSE
  /\ saveOps = << >>
  /\ dbTemplates = << >>
  /\ templates = << >>
  /\ tplLoading = TRUE
  /\ tplLoadPending = FALSE
  /\ showAddDialog = FALSE
  /\ newTemplate = InitialNewTemplate
  /\ editingTemplate = << >>
  /\ tplOps = << >>
  /\ nextTemplateId = 1

\* remove the i-th element of a sequence
RemoveAt(seq, i) == SubSeq(seq, 1, i - 1) \o SubSeq(seq, i + 1, Len(seq))

(***************************************************************************)
(* AccountSetup: inputs and Cancel                                         *)
(***************************************************************************)
\* onChange of the API ID input (disabled when connected)
SetApiId(value) ==
  /\ currentPage = "account"
  /\ ~account.isConnected
  /\ account' = [account EXCEPT !.apiId = value]
  /\ toast' = NoToast
  /\ UNCHANGED <<currentPage, loading, verificationCode, showVerification,
                 twoFactorPassword, showTwoFactor, validationErrors,
                 accountLoadPending, authOps, dbAccounts, dbSettings, stats,
                 dashLoading, toggles, httpResponse, codeSentFor,
                 passwordAskedFor>>
  /\ UNCHANGED <<settingsVars, templateVars, dispatchVars>>

\* onChange of the API Hash input (disabled when connected)
SetApiHash(value) ==
  /\ currentPage = "account"
  /\ ~account.isConnected
  /\ account' = [account EXCEPT !.apiHash = value]
  /\ toast' = NoToast
  /\ UNCHANGED <<currentPage, loading, verificationCode, showVerification,
                 twoFactorPassword, showTwoFactor, validationErrors,
                 accountLoadPending, authOps, dbAccounts, dbSettings, stats,
                 dashLoading, toggles, httpResponse, codeSentFor,
                 passwordAskedFor>>
  /\ UNCHANGED <<settingsVars, templateVars, dispatchVars>>

\* onChange of the phone input (disabled when connected)
SetPhoneNumber(value) ==
  /\ currentPage = "account"
  /\ ~account.isConnected
  /\ account' = [account EXCEPT !.phoneNumber = formatPhoneNumber(value)]
  /\ toast' = NoToast
  /\ UNCHANGED <<currentPage, loading, verificationCode, showVerification,
                 twoFactorPassword, showTwoFactor, validationErrors,
                 accountLoadPending, authOps, dbAccounts, dbSettings, stats,
                 dashLoading, toggles, httpResponse, codeSentFor,
                 passwordAskedFor>>
  /\ UNCHANGED <<settingsVars, templateVars, dispatchVars>>

\* onChange of the verification code input
SetVerificationCode(value) ==
  /\ VerificationCardShown
  /\ verificationCode' = codeInput(value)
  /\ toast' = NoToast
  /\ UNCHANGED <<currentPage, account, loading, showVerification,
                 twoFactorPassword, showTwoFactor, validationErrors,
                 accountLoadPending, authOps, dbAccounts, dbSettings, stats,
                 dashLoading, toggles, httpResponse, codeSentFor,
                 passwordAskedFor>>
  /\ UNCHANGED <<settingsVars, templateVars, dispatchVars>>

\* onChange of the two-factor password input
SetTwoFactorPassword(value) ==
  /\ VerificationCardShown
  /\ showTwoFactor
  /\ twoFactorPassword' = value
  /\ toast' = NoToast
  /\ UNCHANGED <<currentPage, account, loading, verificationCode,
                 showVerification, showTwoFactor, validationErrors,
                 accountLoadPending, authOps, dbAccounts, dbSettings, stats,
                 dashLoading, toggles, httpResponse, codeSentFor,
                 passwordAskedFor>>
  /\ UNCHANGED <<settingsVars, templateVars, dispatchVars>>

\* onClick of the Cancel button (not disabled by loading)
Cancel ==
  /\ VerificationCardShown
  /\ showVerification' = FALSE
  /\ showTwoFactor' = FALSE
  /\ verificationCode' = Empty
  /\ twoFactorPassword' = Empty
  /\ toast' = NoToast
  /\ UNCHANGED <<currentPage, account, loading, validationErrors,
                 accountLoadPending, authOps, dbAccounts, dbSettings, stats,
                 dashLoading, toggles, httpResponse, codeSentFor,
                 passwordAskedFor>>
  /\ UNCHANGED <<settingsVars, templateVars, dispatchVars>>

\* loadAccountData, started by the mount effect; dbOk is whether
\* blink.auth.me and telegramAccounts.list resolve
loadAccountData(dbOk) ==
  /\ currentPage = "account"
  /\ accountLoadPending
  /\ accountLoadPending' = FALSE
  /\ account' =
       IF dbOk /\ dbAccounts # << >>
         THEN LET acc == dbAccounts[1]
              IN  [apiId |-> acc.apiId, apiHash |-> acc.apiHash,
                   phoneNumber |-> acc.phoneNumber,
                   isConnected |-> acc.isConnected = "1",
                   sessionString |-> acc.sessionString,
                   user |-> acc.userData]
         ELSE account
  /\ toast' = NoToast
  /\ UNCHANGED <<currentPage, loading, verificationCode, showVerification,
                 twoFactorPassword, showTwoFactor, validationErrors, authOps,
                 dbAccounts, dbSettings, stats, dashLoading, toggles,
                 httpResponse, codeSentFor, passwordAskedFor>>
  /\ UNCHANGED <<settingsVars, templateVars, dispatchVars>>

(***************************************************************************)
(* AccountSetup: validateAndSaveAccount                                    *)
(***************************************************************************)
\* the credentials validateAndSaveAccount builds from the form
formCredentials ==
  TelegramCredentials(trim(account.apiId), trim(account.apiHash),
                      formatPhoneNumber(account.phoneNumber))

\* the Connect button is rendered and enabled
ConnectEnabled == currentPage = "account" /\ ~account.isConnected /\ ~loading

\* onClick of Connect, up to the first await
validateAndSaveAccount ==
  /\ ConnectEnabled
  /\ LET credentials == formCredentials
         validation == validateCredentials(credentials)
     IN  IF ~validation.isValid
           THEN /\ validationErrors' = validation.errors
                /\ toast' = ToastError("Please fix the validation errors")
                /\ UNCHANGED <<loading, authOps>>
           ELSE /\ Len(authOps) < MaxAuthOps
                /\ validationErrors' = << >>
                /\ loading' = TRUE
                /\ authOps' = Append(authOps,
                                AuthOp("sendCode", credentials, Empty, Empty, NoSession))
                /\ toast' = NoToast
  /\ UNCHANGED <<currentPage, account, verificationCode, showVerification,
                 twoFactorPassword, showTwoFactor, accountLoadPending,
                 dbAccounts, dbSettings, stats, dashLoading, toggles,
                 httpResponse, codeSentFor, passwordAskedFor>>
  /\ UNCHANGED <<settingsVars, templateVars, dispatchVars>>

\* TelegramAPI.sendVerificationCode resolves; on success blink.auth.me and
\* telegramAccounts.list follow (dbOk: they resolve)
sendCodeResponse(i, netOk, dbOk) ==
  /\ i \in 1..Len(authOps)
  /\ authOps[i].op = "sendCode"
  /\ authOps[i].phase = "net"
  /\ LET op == authOps[i]
         result == apiSendVerificationCode(op.credentials, netOk, NoSession)
     IN  IF result.success /\ dbOk
           THEN /\ authOps' = [authOps EXCEPT ![i].phase = "db",
                                             ![i].result = result,
                                             ![i].hadRow = dbAccounts # << >>]
                /\ toast' = NoToast
                /\ UNCHANGED <<validationErrors, loading>>
           ELSE /\ authOps' = RemoveAt(authOps, i)
                /\ toast' = IF result.success
                              THEN ToastError("Failed to connect to Telegram. Please try again.")
                              ELSE ToastError(result.message)
                /\ validationErrors' =
                     IF op.live /\ ~result.success /\ result.error = "INVALID_CREDENTIALS"
                       THEN <<"Invalid API credentials. Please check your API ID and Hash.">>
                       ELSE validationErrors
                /\ loading' = IF op.live THEN FALSE ELSE loading
  /\ UNCHANGED <<currentPage, account, verificationCode, showVerification,
                 twoFactorPassword, showTwoFactor, accountLoadPending,
                 dbAccounts, dbSettings, stats, dashLoading, toggles,
                 httpResponse, codeSentFor, passwordAskedFor>>
  /\ UNCHANGED <<settingsVars, templateVars, dispatchVars>>

\* telegramAccounts.update / create resolves (dbOk) or rejects, then the
\* local state is updated
sendCodeSave(i, dbOk) ==
  /\ i \in 1..Len(authOps)
  /\ authOps[i].op = "sendCode"
  /\ authOps[i].phase = "db"
  /\ LET op == authOps[i]
         credentials == op.credentials
     IN  /\ authOps' = RemoveAt(authOps, i)
         /\ loading' = IF op.live THEN FALSE ELSE loading
         /\ IF dbOk
              THEN /\ dbAccounts' =
                        IF op.hadRow
                          THEN [dbAccounts EXCEPT ![1].apiId = credentials.apiId,
                                                  ![1].apiHash = credentials.apiHash,
                                                  ![1].phoneNumber = credentials.phoneNumber,
                                                  ![1].isConnected = "0"]
                          ELSE Append(dbAccounts,
                                 [apiId |-> credentials.apiId,
                                  apiHash |-> credentials.apiHash,
                                  phoneNumber |-> credentials.phoneNumber,
                                  isConnected |-> "0",
                                  sessionString |-> NoSession,
                                  userData |-> NoUser])
                   /\ account' =
                        IF op.live
                          THEN [account EXCEPT !.apiId = credentials.apiId,
                                               !.apiHash = credentials.apiHash,
                                               !.phoneNumber = credentials.phoneNumber]
                          ELSE account
                   /\ showVerification' = IF op.live THEN TRUE ELSE showVerification
                   /\ toast' = ToastSuccess(op.result.message)
              ELSE /\ toast' = ToastError("Failed to connect to Telegram. Please try again.")
                   /\ UNCHANGED <<dbAccounts, account, showVerification>>
  /\ UNCHANGED <<currentPage, verificationCode, twoFactorPassword, showTwoFactor,
                 validationErrors, accountLoadPending, dbSettings, stats,
                 dashLoading, toggles, httpResponse, codeSentFor,
                 passwordAskedFor>>
  /\ UNCHANGED <<settingsVars, templateVars, dispatchVars>>

(***************************************************************************)
(* AccountSetup: verifyTelegramCode                                        *)
(***************************************************************************)
\* the Verify Code button is rendered and enabled
VerifyCodeEnabled == VerificationCardShown /\ ~showTwoFactor /\ ~loading

\* onClick of Verify Code, up to the first await
verifyTelegramCode ==
  /\ VerifyCodeEnabled
  /\ IF trim(verificationCode) = Empty
       THEN /\ toast' = ToastError("Please enter the verification code")
            /\ UNCHANGED <<loading, authOps>>
     ELSE IF ~IsCode(verificationCode)
       THEN /\ toast' = ToastError("Verification code must be 5 digits")
            /\ UNCHANGED <<loading, authOps>>
     ELSE /\ Len(authOps) < MaxAuthOps
          /\ loading' = TRUE
          /\ authOps' = Append(authOps,
                          AuthOp("verifyCode",
                                 TelegramCredentials(account.apiId, account.apiHash,
                                                     account.phoneNumber),
                                 verificationCode, Empty, NoSession))
          /\ toast' = NoToast
  /\ UNCHANGED <<currentPage, account, verificationCode, showVerification,
                 twoFactorPassword, showTwoFactor, validationErrors,
                 accountLoadPending, dbAccounts, dbSettings, stats, dashLoading,
                 toggles, httpResponse, codeSentFor, passwordAskedFor>>
  /\ UNCHANGED <<settingsVars, templateVars, dispatchVars>>

\* twoFactorAfterVerify asking for the password after every failure
twoFactorAfterVerify_OnAnyFailure(op, result) ==
  IF op.live /\ ~result.success
    THEN TRUE
    ELSE showTwoFactor

\* showTwoFactor after the result of TelegramAPI.verifyCode was handled
twoFactorAfterVerify(op, result) ==
  IF op.live /\ ~result.success /\ result.requiresPassword
    THEN TRUE
    ELSE showTwoFactor

\* TelegramAPI.verifyCode resolves; on success blink.auth.me and
\* telegramAccounts.list follow
verifyCodeResponse(i, netOk, dbOk, session) ==
  /\ i \in 1..Len(authOps)
  /\ authOps[i].op = "verifyCode"
  /\ authOps[i].phase = "net"
  /\ LET op == authOps[i]
         result == apiVerifyCode(op.credentials, op.code, netOk, session)
     IN  IF result.success /\ dbOk
           THEN /\ authOps' = [authOps EXCEPT ![i].phase = "db",
                                             ![i].result = result,
                                             ![i].hadRow = dbAccounts # << >>]
                /\ toast' = NoToast
                /\ UNCHANGED <<showTwoFactor, loading>>
           ELSE /\ authOps' = RemoveAt(authOps, i)
                /\ toast' = IF result.success
                              THEN ToastError("Failed to verify code. Please try again.")
                              ELSE ToastError(result.message)
                /\ showTwoFactor' = twoFactorAfterVerify(op, result)
                /\ loading' = IF op.live THEN FALSE ELSE loading
  /\ UNCHANGED <<currentPage, account, verificationCode, showVerification,
                 twoFactorPassword, validationErrors, accountLoadPending,
                 dbAccounts, dbSettings, stats, dashLoading, toggles,
                 httpResponse, codeSentFor, passwordAskedFor>>
  /\ UNCHANGED <<settingsVars, templateVars, dispatchVars>>

\* telegramAccounts.update resolves (dbOk) or rejects, then the local state
\* is updated
verifyCodeSave(i, dbOk) ==
  /\ i \in 1..Len(authOps)
  /\ authOps[i].op = "verifyCode"
  /\ authOps[i].phase = "db"
  /\ LET op == authOps[i]
         result == op.result
     IN  /\ authOps' = RemoveAt(authOps, i)
         /\ loading' = IF op.live THEN FALSE ELSE loading
         /\ IF dbOk
              THEN /\ dbAccounts' =
                        IF op.hadRow
                          THEN [dbAccounts EXCEPT ![1].isConnected = "1",
                                                  ![1].sessionString = result.sessionString,
                                                  ![1].userData = result.user]
                          ELSE dbAccounts
                   /\ account' =
                        IF op.live
                          THEN [account EXCEPT !.isConnected = TRUE,
                                               !.sessionString = result.sessionString,
                                               !.user = result.user]
                          ELSE account
                   /\ showVerification' = IF op.live THEN FALSE ELSE showVerification
                   /\ verificationCode' = IF op.live THEN Empty ELSE verificationCode
                   /\ toast' = ToastSuccess(result.message)
              ELSE /\ toast' = ToastError("Failed to verify code. Please try again.")
                   /\ UNCHANGED <<dbAccounts, account, showVerification, verificationCode>>
  /\ UNCHANGED <<currentPage, twoFactorPassword, showTwoFactor, validationErrors,
                 accountLoadPending, dbSettings, stats, dashLoading, toggles,
                 httpResponse, codeSentFor, passwordAskedFor>>
  /\ UNCHANGED <<settingsVars, templateVars, dispatchVars>>

(***************************************************************************)
(* AccountSetup: verifyTwoFactorPassword                                   *)
(***************************************************************************)
\* the Verify Password button is rendered and enabled
VerifyPasswordEnabled == VerificationCardShown /\ showTwoFactor /\ ~loading

\* onClick of Verify Password, up to the first await
verifyTwoFactorPassword ==
  /\ VerifyPasswordEnabled
  /\ IF trim(twoFactorPassword) = Empty
       THEN /\ toast' = ToastError("Please enter your two-factor password")
            /\ UNCHANGED <<loading, authOps>>
       ELSE /\ Len(authOps) < MaxAuthOps
            /\ loading' = TRUE
            /\ authOps' = Append(authOps,
                            AuthOp("checkPassword",
                                   TelegramCredentials(account.apiId, account.apiHash,
                                                       account.phoneNumber),
                                   Empty, twoFactorPassword, account.sessionString))
            /\ toast' = NoToast
  /\ UNCHANGED <<currentPage, account, verificationCode, showVerification,
                 twoFactorPassword, showTwoFactor, validationErrors,
                 accountLoadPending, dbAccounts, dbSettings, stats, dashLoading,
                 toggles, httpResponse, codeSentFor, passwordAskedFor>>
  /\ UNCHANGED <<settingsVars, templateVars, dispatchVars>>

\* TelegramAPI.checkPassword resolves; on success blink.auth.me and
\* telegramAccounts.list follow
checkPasswordResponse(i, netOk, dbOk, session) ==
  /\ i \in 1..Len(authOps)
  /\ authOps[i].op = "checkPassword"
  /\ authOps[i].phase = "net"
  /\ LET op == authOps[i]
         result == apiCheckPassword(op.credentials, op.password, op.sessionString,
                                    netOk, session)
     IN  IF result.success /\ dbOk
           THEN /\ authOps' = [authOps EXCEPT ![i].phase = "db",
                                             ![i].result = result,
                                             ![i].hadRow = dbAccounts # << >>]
                /\ toast' = NoToast
                /\ UNCHANGED <<loading>>
           ELSE /\ authOps' = RemoveAt(authOps, i)
                /\ toast' = IF result.success
                              THEN ToastError("Failed to verify password. Please try again.")
                              ELSE ToastError(result.message)
                /\ loading' = IF op.live THEN FALSE ELSE loading
  /\ UNCHANGED <<currentPage, account, verificationCode, showVerification,
                 twoFactorPassword, showTwoFactor, validationErrors,
                 accountLoadPending, dbAccounts, dbSettings, stats, dashLoading,
                 toggles, httpResponse, codeSentFor, passwordAskedFor>>
  /\ UNCHANGED <<settingsVars, templateVars, dispatchVars>>

\* telegramAccounts.update resolves (dbOk) or rejects, then the local state
\* is updated
checkPasswordSave(i, dbOk) ==
  /\ i \in 1..Len(authOps)
  /\ authOps[i].op = "checkPassword"
  /\ authOps[i].phase = "db"
  /\ LET op == authOps[i]
         result == op.result
     IN  /\ authOps' = RemoveAt(authOps, i)
         /\ loading' = IF op.live THEN FALSE ELSE loading
         /\ IF dbOk
              THEN /\ dbAccounts' =
                        IF op.hadRow
                          THEN [dbAccounts EXCEPT ![1].isConnected = "1",
                                                  ![1].sessionString = result.sessionString,
                                                  ![1].userData = result.user]
                          ELSE dbAccounts
                   /\ account' =
                        IF op.live
                          THEN [account EXCEPT !.isConnected = TRUE,
                                               !.sessionString = result.sessionString,
                                               !.user = result.user]
                          ELSE account
                   /\ showVerification' = IF op.live THEN FALSE ELSE showVerification
                   /\ showTwoFactor' = IF op.live THEN FALSE ELSE showTwoFactor
                   /\ twoFactorPassword' = IF op.live THEN Empty ELSE twoFactorPassword
                   /\ toast' = ToastSuccess(result.message)
              ELSE /\ toast' = ToastError("Failed to verify password. Please try again.")
                   /\ UNCHANGED <<dbAccounts, account, showVerification,
                                  showTwoFactor, twoFactorPassword>>
  /\ UNCHANGED <<currentPage, verificationCode, validationErrors,
                 accountLoadPending, dbSettings, stats, dashLoading, toggles,
                 httpResponse, codeSentFor, passwordAskedFor>>
  /\ UNCHANGED <<settingsVars, templateVars, dispatchVars>>

(***************************************************************************)
(* AccountSetup: disconnectAccount                                         *)
(***************************************************************************)
\* the Disconnect button is rendered and enabled
DisconnectEnabled == currentPage = "account" /\ account.isConnected /\ ~loading

\* onClick of Disconnect Account, up to the first await
disconnectAccount ==
  /\ DisconnectEnabled
  /\ Len(authOps) < MaxAuthOps
  /\ loading' = TRUE
  /\ authOps' = Append(authOps,
                  AuthOp("disconnect", NoCredentials, Empty, Empty, NoSession))
  /\ toast' = NoToast
  /\ UNCHANGED <<currentPage, account, verificationCode, showVerification,
                 twoFactorPassword, showTwoFactor, validationErrors,
                 accountLoadPending, dbAccounts, dbSettings, stats,
                 dashLoading, toggles, httpResponse, codeSentFor,
                 passwordAskedFor>>
  /\ UNCHANGED <<settingsVars, templateVars, dispatchVars>>

\* blink.auth.me and telegramAccounts.list resolve (dbOk) or reject
disconnectList(i, dbOk) ==
  /\ i \in 1..Len(authOps)
  /\ authOps[i].op = "disconnect"
  /\ authOps[i].phase = "net"
  /\ LET op == authOps[i]
     IN  IF dbOk
           THEN /\ authOps' = [authOps EXCEPT ![i].phase = "db",
                                             ![i].hadRow = dbAccounts # << >>]
                /\ toast' = NoToast
                /\ UNCHANGED <<loading>>
           ELSE /\ authOps' = RemoveAt(authOps, i)
                /\ toast' = ToastError("Failed to disconnect account")
                /\ loading' = IF op.live THEN FALSE ELSE loading
  /\ UNCHANGED <<currentPage, account, verificationCode, showVerification,
                 twoFactorPassword, showTwoFactor, validationErrors,
                 accountLoadPending, dbAccounts, dbSettings, stats, dashLoading,
                 toggles, httpResponse, codeSentFor, passwordAskedFor>>
  /\ UNCHANGED <<settingsVars, templateVars, dispatchVars>>

\* what disconnectAccount leaves in the account state
disconnectedAccount(acc) ==
  [acc EXCEPT !.isConnected = FALSE, !.sessionString = NoSession, !.user = NoUser]

\* disconnectedRow leaving the row connected
disconnectedRow_KeepsConnected(row) ==
  [row EXCEPT !.sessionString = NoSession, !.userData = NoUser]

\* what disconnectAccount leaves in the row of telegramAccounts
disconnectedRow(row) ==
  [row EXCEPT !.isConnected = "0", !.sessionString = NoSession, !.userData = NoUser]

\* telegramAccounts.update resolves (dbOk) or rejects, then the local state
\* is updated
disconnectSave(i, dbOk) ==
  /\ i \in 1..Len(authOps)
  /\ authOps[i].op = "disconnect"
  /\ authOps[i].phase = "db"
  /\ LET op == authOps[i]
     IN  /\ authOps' = RemoveAt(authOps, i)
         /\ loading' = IF op.live THEN FALSE ELSE loading
         /\ IF dbOk
              THEN /\ dbAccounts' =
                        IF op.hadRow
                          THEN [dbAccounts EXCEPT ![1] = disconnectedRow(dbAccounts[1])]
                          ELSE dbAccounts
                   /\ account' = IF op.live THEN disconnectedAccount(account) ELSE account
                   /\ showVerification' = IF op.live THEN FALSE ELSE showVerification
                   /\ showTwoFactor' = IF op.live THEN FALSE ELSE showTwoFactor
                   /\ verificationCode' = IF op.live THEN Empty ELSE verificationCode
                   /\ twoFactorPassword' = IF op.live THEN Empty ELSE twoFactorPassword
                   /\ toast' = ToastSuccess("Account disconnected successfully")
              ELSE /\ toast' = ToastError("Failed to disconnect account")
                   /\ UNCHANGED <<dbAccounts, account, showVerification, showTwoFactor,
                                  verificationCode, twoFactorPassword>>
  /\ UNCHANGED <<currentPage, validationErrors, accountLoadPending, dbSettings,
                 stats, dashLoading, toggles, httpResponse, codeSentFor,
                 passwordAskedFor>>
  /\ UNCHANGED <<settingsVars, templateVars, dispatchVars>>

(***************************************************************************)
(* Dashboard                                                               *)
(***************************************************************************)
\* a toggleSender call suspended at an await: phase "list" is the await of
\* blink.auth.me and userSettings.list, phase "write" the await of
\* userSettings.update / create; isRunning is stats.isRunning of the render
\* whose handler was invoked
ToggleOp(isRunning) ==
  [isRunning |-> isRunning, phase |-> "list", hadRow |-> FALSE, live |-> TRUE]

\* loadDashboardData, started by the mount effect; dbOk is whether the
\* storage reads resolve
loadDashboardData(dbOk) ==
  /\ currentPage = "dashboard"
  /\ dashLoading
  /\ dashLoading' = FALSE
  /\ stats' = IF dbOk
                THEN [isRunning |-> IF dbSettings # << >>
                                      THEN dbSettings[1].isRunning = "1"
                                      ELSE FALSE]
                ELSE stats
  /\ toast' = NoToast
  /\ UNCHANGED <<currentPage, account, loading, verificationCode,
                 showVerification, twoFactorPassword, showTwoFactor,
                 validationErrors, accountLoadPending, authOps, dbAccounts,
                 dbSettings, toggles, httpResponse, codeSentFor,
                 passwordAskedFor>>
  /\ UNCHANGED <<settingsVars, templateVars, dispatchVars>>

\* the Start/Stop button is rendered
ToggleEnabled == currentPage = "dashboard" /\ ~dashLoading

\* onClick of Start/Stop, up to the first await
toggleSender ==
  /\ ToggleEnabled
  /\ Len(toggles) < MaxToggles
  /\ toggles' = Append(toggles, ToggleOp(stats.isRunning))
  /\ toast' = NoToast
  /\ UNCHANGED <<currentPage, account, loading, verificationCode,
                 showVerification, twoFactorPassword, showTwoFactor,
                 validationErrors, accountLoadPending, authOps, dbAccounts,
                 dbSettings, stats, dashLoading, httpResponse, codeSentFor,
                 passwordAskedFor>>
  /\ UNCHANGED <<settingsVars, templateVars, dispatchVars>>

\* blink.auth.me and userSettings.list resolve (dbOk) or reject
toggleList(i, dbOk) ==
  /\ i \in 1..Len(toggles)
  /\ toggles[i].phase = "list"
  /\ toggles' = IF dbOk
                  THEN [toggles EXCEPT ![i].phase = "write",
                                       ![i].hadRow = dbSettings # << >>]
                  ELSE RemoveAt(toggles, i)
  /\ toast' = NoToast
  /\ UNCHANGED <<currentPage, account, loading, verificationCode,
                 showVerification, twoFactorPassword, showTwoFactor,
                 validationErrors, accountLoadPending, authOps, dbAccounts,
                 dbSettings, stats, dashLoading, httpResponse, codeSentFor,
                 passwordAskedFor>>
  /\ UNCHANGED <<settingsVars, templateVars, dispatchVars>>

\* the isRunning value toggleSender writes
toggledIsRunning(isRunning) == IF isRunning THEN "0" ELSE "1"

\* the record toggleSender creates when the user has no settings
DefaultSettings(isRunning) ==
  [isRunning |-> isRunning, groupDelay |-> 7, cycleDelay |-> 75, maxRetries |-> 3,
   enableNotifications |-> None, autoBlacklist |-> None, rateLimitBuffer |-> NoValue]

\* userSettings.update / create resolves (dbOk) or rejects, then setStats
toggleWrite(i, dbOk) ==
  /\ i \in 1..Len(toggles)
  /\ toggles[i].phase = "write"
  /\ LET op == toggles[i]
     IN  /\ toggles' = RemoveAt(toggles, i)
         /\ IF dbOk
              THEN /\ dbSettings' =
                        IF op.hadRow
                          THEN [dbSettings EXCEPT
                                  ![1].isRunning = toggledIsRunning(op.isRunning)]
                          ELSE Append(dbSettings,
                                      DefaultSettings(toggledIsRunning(op.isRunning)))
                   /\ stats' = IF op.live
                                 THEN [stats EXCEPT !.isRunning = ~stats.isRunning]
                                 ELSE stats
              ELSE UNCHANGED <<dbSettings, stats>>
  /\ toast' = NoToast
  /\ UNCHANGED <<currentPage, account, loading, verificationCode,
                 showVerification, twoFactorPassword, showTwoFactor,
                 validationErrors, accountLoadPending, authOps, dbAccounts,
                 dashLoading, httpResponse, codeSentFor, passwordAskedFor>>
  /\ UNCHANGED <<settingsVars, templateVars, dispatchVars>>

(***************************************************************************)
(* Settings                                                                *)
(***************************************************************************)
\* what the Settings handlers leave alone besides toast, dbSettings and the
\* state of Settings
nonSettingsVars == <<currentPage, accountVars, dashVars, authOps, dbAccounts,
                     toggles, httpResponse, codeSentFor, passwordAskedFor,
                     templateVars, dispatchVars>>

\* the value of a decimal digit
DigitValue(c) == CHOOSE n \in 0..9 : ToString(n) = c

\* the value of the leading digits of s, appended to the value acc
RECURSIVE digitsValue(_, _)
digitsValue(s, acc) ==
  IF s = Empty \/ s[1] \notin Digit
    THEN acc
    ELSE digitsValue(Tail(s), acc * 10 + DigitValue(s[1]))

\* parseInt: leading whitespace, an optional sign, then the leading digits;
\* NoValue is NaN
parseInt(raw) ==
  LET s == trimStart(raw)
      signed == s # Empty /\ s[1] \in {"-", "+"}
      body == IF signed THEN Tail(s) ELSE s
  IN  IF body = Empty \/ body[1] \notin Digit
        THEN NoValue
        ELSE <<(IF signed /\ s[1] = "-" THEN -1 ELSE 1) * digitsValue(body, 0)>>

\* parseInt(e.target.value) || 3
maxRetriesInput(raw) ==
  LET n == parseInt(raw)
  IN  IF n = NoValue \/ n[1] = 0 THEN 3 ELSE n[1]

\* the values the sliders can emit (min, a value inside, max)
GroupDelayValues == {5, 7, 30}

CycleDelayValues == {60, 75, 120}

RateLimitBufferValues == {0, 10, 50}

\* what the operator types into the Maximum Retries field
MaxRetriesInputs == {Empty, <<"0">>, <<"1", "0">>, <<"9", "9">>, <<"-", "5">>}

\* a saveSettings call suspended at an await: phase "list" is the await of
\* blink.auth.me and userSettings.list, phase "write" the await of
\* userSettings.update / create; settings is the state of the render whose
\* handler was invoked
SaveOp(s) == [settings |-> s, phase |-> "list", hadRow |-> FALSE, live |-> TRUE]

\* loadSettings, started by the mount effect; dbOk is whether the storage
\* reads resolve
loadSettings(dbOk) ==
  /\ currentPage = "settings"
  /\ settingsLoading
  /\ settingsLoading' = FALSE
  /\ settings' = IF dbOk /\ dbSettings # << >> THEN dbSettings[1] ELSE settings
  /\ toast' = NoToast
  /\ UNCHANGED <<nonSettingsVars, dbSettings, saving, saveOps>>

\* the form of Settings is rendered
SettingsShown == currentPage = "settings" /\ ~settingsLoading

\* onValueChange of the group delay slider
SetGroupDelay(value) ==
  /\ SettingsShown
  /\ settings' = [settings EXCEPT !.groupDelay = value]
  /\ toast' = NoToast
  /\ UNCHANGED <<nonSettingsVars, dbSettings, settingsLoading, saving, saveOps>>

\* onValueChange of the cycle delay slider
SetCycleDelay(value) ==
  /\ SettingsShown
  /\ settings' = [settings EXCEPT !.cycleDelay = value]
  /\ toast' = NoToast
  /\ UNCHANGED <<nonSettingsVars, dbSettings, settingsLoading, saving, saveOps>>

\* onValueChange of the rate limit buffer slider
SetRateLimitBuffer(value) ==
  /\ SettingsShown
  /\ settings' = [settings EXCEPT !.rateLimitBuffer = <<value>>]
  /\ toast' = NoToast
  /\ UNCHANGED <<nonSettingsVars, dbSettings, settingsLoading, saving, saveOps>>

\* onChange of the Maximum Retries input
SetMaxRetries(raw) ==
  /\ SettingsShown
  /\ settings' = [settings EXCEPT !.maxRetries = maxRetriesInput(raw)]
  /\ toast' = NoToast
  /\ UNCHANGED <<nonSettingsVars, dbSettings, settingsLoading, saving, saveOps>>

\* onCheckedChange of the auto-blacklist switch
SetAutoBlacklist(checked) ==
  /\ SettingsShown
  /\ settings' = [settings EXCEPT !.autoBlacklist = IF checked THEN "1" ELSE "0"]
  /\ toast' = NoToast
  /\ UNCHANGED <<nonSettingsVars, dbSettings, settingsLoading, saving, saveOps>>

\* onCheckedChange of the notifications switch
SetEnableNotifications(checked) ==
  /\ SettingsShown
  /\ settings' = [settings EXCEPT !.enableNotifications = IF checked THEN "1" ELSE "0"]
  /\ toast' = NoToast
  /\ UNCHANGED <<nonSettingsVars, dbSettings, settingsLoading, saving, saveOps>>

\* the Save Settings button is rendered and enabled
SaveEnabled == SettingsShown /\ ~saving

\* onClick of Save Settings, up to the first await
saveSettings ==
  /\ SaveEnabled
  /\ Len(saveOps) < MaxSaves
  /\ saving' = TRUE
  /\ saveOps' = Append(saveOps, SaveOp(settings))
  /\ toast' = NoToast
  /\ UNCHANGED <<nonSettingsVars, dbSettings, settings, settingsLoading>>

\* blink.auth.me and userSettings.list resolve (dbOk) or reject
saveList(i, dbOk) ==
  /\ i \in 1..Len(saveOps)
  /\ saveOps[i].phase = "list"
  /\ IF dbOk
       THEN /\ saveOps' = [saveOps EXCEPT ![i].phase = "write",
                                          ![i].hadRow = dbSettings # << >>]
            /\ toast' = NoToast
            /\ UNCHANGED saving
       ELSE /\ saveOps' = RemoveAt(saveOps, i)
            /\ toast' = ToastError("Failed to save settings")
            /\ saving' = IF saveOps[i].live THEN FALSE ELSE saving
  /\ UNCHANGED <<nonSettingsVars, dbSettings, settings, settingsLoading>>

\* userSettings.update / create resolves (dbOk) or rejects
saveWrite(i, dbOk) ==
  /\ i \in 1..Len(saveOps)
  /\ saveOps[i].phase = "write"
  /\ LET op == saveOps[i]
     IN  /\ saveOps' = RemoveAt(saveOps, i)
         /\ saving' = IF op.live THEN FALSE ELSE saving
         /\ IF dbOk
              THEN /\ dbSettings' = IF op.hadRow
                                      THEN [dbSettings EXCEPT ![1] = op.settings]
                                      ELSE Append(dbSettings, op.settings)
                   /\ toast' = ToastSuccess("Settings saved successfully")
              ELSE /\ toast' = ToastError("Failed to save settings")
                   /\ UNCHANGED dbSettings
  /\ UNCHANGED <<nonSettingsVars, settings, settingsLoading>>

(***************************************************************************)
(* MessageTemplates: the Templates page                                    *)
(***************************************************************************)
nonTemplateVars == <<accountVars, dashVars, authOps, dbAccounts, dbSettings,
                     toggles, httpResponse, codeSentFor, passwordAskedFor,
                     settingsVars, dispatchVars>>

\* the index of the first "}" of content at or after k, Len(content) + 1 when
\* there is none: the end of what [^}]+ can take
RECURSIVE firstClose(_, _)
firstClose(content, k) ==
  IF k > Len(content) THEN k
  ELSE IF content[k] = "}" THEN k
  ELSE firstClose(content, k + 1)

\* /\{\{([^}]+)\}\}/ matches at index i of content
matchesAt(content, i) ==
  /\ i + 1 <= Len(content)
  /\ content[i] = "{"
  /\ content[i + 1] = "{"
  /\ LET k == firstClose(content, i + 2)
     IN  /\ k > i + 2
         /\ k + 1 <= Len(content)
         /\ content[k + 1] = "}"

\* the while loop of regex.exec from lastIndex: the trimmed group of every
\* match, each search starting after the last match
RECURSIVE execMatches(_, _)
execMatches(content, lastIndex) ==
  IF lastIndex > Len(content) THEN << >>
  ELSE IF matchesAt(content, lastIndex)
    THEN LET k == firstClose(content, lastIndex + 2)
         IN  <<trim(SubSeq(content, lastIndex + 2, k - 1))>>
               \o execMatches(content, k + 2)
  ELSE execMatches(content, lastIndex + 1)

\* [...new Set(matches)]: the first occurrence of each element, in order
RECURSIVE uniqueInOrder(_)
uniqueInOrder(matches) ==
  IF matches = << >> THEN << >>
  ELSE LET front == uniqueInOrder(SubSeq(matches, 1, Len(matches) - 1))
           last == matches[Len(matches)]
       IN  IF \E k \in 1..Len(front) : front[k] = last
             THEN front
             ELSE Append(front, last)

\* extractVariables that keeps the duplicates
extractVariables_KeepsDuplicates(content) == execMatches(content, 1)

extractVariables(content) == uniqueInOrder(execMatches(content, 1))

\* template names and contents that the operator types
TemplateName == <<"n">>

CopySuffix == <<" ", "(", "C", "o", "p", "y", ")">>

TemplateNameInputs == {TemplateName, <<" ">>}

TwoVariables ==
  <<" ", "{", "{", "b", "}", "}", "{", "{", "a", "}", "}", "{", "{", " ", "b",
    "}", "}">>

NestedBrace == <<"{", "{", "{", "a", "}", "}">>

TemplateContentInputs == {TwoVariables, NestedBrace}

EditedContentInputs == {Empty, <<"{", "{", "a", "}", "}", "}", "x">>}

\* a row of messageTemplates; JSON.parse(JSON.stringify(variables)) gives the
\* string array back, the row holds the array
TemplateRow(id, name, content, variables, isActive) ==
  [id |-> id, name |-> name, content |-> content, variables |-> variables,
   isActive |-> isActive]

\* a handler of the page suspended at its await
TplOp(kind, id, name, content, variables, isActive) ==
  [kind |-> kind, id |-> id, name |-> name, content |-> content,
   variables |-> variables, isActive |-> isActive, live |-> TRUE]

TemplatesShown == currentPage = "templates" /\ ~tplLoading

\* no dialog covers the template cards
CardsShown == TemplatesShown /\ ~showAddDialog /\ editingTemplate = << >>

\* loadTemplates: the list of the operator's templates, newest first
loadTemplates(dbOk) ==
  /\ currentPage = "templates"
  /\ tplLoadPending
  /\ tplLoadPending' = FALSE
  /\ tplLoading' = FALSE
  /\ IF dbOk
       THEN templates' = dbTemplates /\ toast' = NoToast
       ELSE UNCHANGED templates /\ toast' = ToastError("Failed to load templates")
  /\ UNCHANGED <<currentPage, nonTemplateVars, dbTemplates, showAddDialog,
                 newTemplate, editingTemplate, tplOps, nextTemplateId>>

\* the Add Template button and the dialog's onOpenChange
SetShowAddDialog(open) ==
  /\ TemplatesShown
  /\ editingTemplate = << >>
  /\ showAddDialog # open
  /\ showAddDialog' = open
  /\ toast' = NoToast
  /\ UNCHANGED <<currentPage, nonTemplateVars, dbTemplates, templates, tplLoading,
                 tplLoadPending, newTemplate, editingTemplate, tplOps,
                 nextTemplateId>>

SetNewTemplateName(value) ==
  /\ TemplatesShown
  /\ showAddDialog
  /\ newTemplate' = [newTemplate EXCEPT !.name = value]
  /\ toast' = NoToast
  /\ UNCHANGED <<currentPage, nonTemplateVars, dbTemplates, templates, tplLoading,
                 tplLoadPending, showAddDialog, editingTemplate, tplOps,
                 nextTemplateId>>

SetNewTemplateContent(value) ==
  /\ TemplatesShown
  /\ showAddDialog
  /\ newTemplate' = [newTemplate EXCEPT !.content = value]
  /\ toast' = NoToast
  /\ UNCHANGED <<currentPage, nonTemplateVars, dbTemplates, templates, tplLoading,
                 tplLoadPending, showAddDialog, editingTemplate, tplOps,
                 nextTemplateId>>

\* addTemplate up to its first await
addTemplate ==
  /\ TemplatesShown
  /\ showAddDialog
  /\ IF trim(newTemplate.name) = Empty \/ trim(newTemplate.content) = Empty
       THEN /\ toast' = ToastError("Please fill in all required fields")
            /\ UNCHANGED tplOps
       ELSE /\ Len(tplOps) + (IF tplLoadPending THEN 1 ELSE 0) < MaxTplOps
            /\ tplOps' = Append(tplOps,
                 TplOp("add", 0, trim(newTemplate.name), trim(newTemplate.content),
                       extractVariables(newTemplate.content), "1"))
            /\ toast' = NoToast
  /\ UNCHANGED <<currentPage, nonTemplateVars, dbTemplates, templates, tplLoading,
                 tplLoadPending, showAddDialog, newTemplate, editingTemplate,
                 nextTemplateId>>

\* the edit button of card k
SetEditingTemplate(k) ==
  /\ CardsShown
  /\ k \in 1..Len(templates)
  /\ editingTemplate' = <<templates[k]>>
  /\ toast' = NoToast
  /\ UNCHANGED <<currentPage, nonTemplateVars, dbTemplates, templates, tplLoading,
                 tplLoadPending, showAddDialog, newTemplate, tplOps,
                 nextTemplateId>>

\* the edit dialog's Cancel and onOpenChange
CloseEditDialog ==
  /\ TemplatesShown
  /\ editingTemplate # << >>
  /\ editingTemplate' = << >>
  /\ toast' = NoToast
  /\ UNCHANGED <<currentPage, nonTemplateVars, dbTemplates, templates, tplLoading,
                 tplLoadPending, showAddDialog, newTemplate, tplOps,
                 nextTemplateId>>

SetEditingName(value) ==
  /\ TemplatesShown
  /\ editingTemplate # << >>
  /\ editingTemplate' = <<[editingTemplate[1] EXCEPT !.name = value]>>
  /\ toast' = NoToast
  /\ UNCHANGED <<currentPage, nonTemplateVars, dbTemplates, templates, tplLoading,
                 tplLoadPending, showAddDialog, newTemplate, tplOps,
                 nextTemplateId>>

SetEditingContent(value) ==
  /\ TemplatesShown
  /\ editingTemplate # << >>
  /\ editingTemplate' = <<[editingTemplate[1] EXCEPT !.content = value]>>
  /\ toast' = NoToast
  /\ UNCHANGED <<currentPage, nonTemplateVars, dbTemplates, templates, tplLoading,
                 tplLoadPending, showAddDialog, newTemplate, tplOps,
                 nextTemplateId>>

\* the handlers of the page that are suspended at an await, loadTemplates
\* included
SuspendedTplHandlers == Len(tplOps) + (IF tplLoadPending THEN 1 ELSE 0)

\* a handler of the page starts and is suspended at its await
startTplOp(op) ==
  /\ SuspendedTplHandlers < MaxTplOps
  /\ tplOps' = Append(tplOps, op)
  /\ toast' = NoToast
  /\ UNCHANGED <<currentPage, nonTemplateVars, dbTemplates, templates, tplLoading,
                 tplLoadPending, showAddDialog, newTemplate, editingTemplate,
                 nextTemplateId>>

\* updateTemplate up to its await
updateTemplate ==
  /\ TemplatesShown
  /\ editingTemplate # << >>
  /\ LET t == editingTemplate[1]
     IN  startTplOp(TplOp("update", t.id, trim(t.name), trim(t.content),
                          extractVariables(t.content), None))

\* deleteTemplate of card k, the confirmation accepted, up to its await
deleteTemplate(k) ==
  /\ CardsShown
  /\ k \in 1..Len(templates)
  /\ LET t == templates[k]
     IN  startTplOp(TplOp("delete", t.id, Empty, Empty, << >>, None))

\* toggleTemplateStatus of card k up to its await
toggleTemplateStatus(k) ==
  /\ CardsShown
  /\ k \in 1..Len(templates)
  /\ LET t == templates[k]
     IN  startTplOp(TplOp("toggle", t.id, Empty, Empty, << >>,
                          IF t.isActive = "1" THEN "0" ELSE "1"))

\* duplicateTemplate of card k up to its first await
duplicateTemplate(k) ==
  /\ CardsShown
  /\ k \in 1..Len(templates)
  /\ LET t == templates[k]
     IN  startTplOp(TplOp("duplicate", 0, t.name \o CopySuffix, t.content,
                          t.variables, "1"))

\* the rows of messageTemplates after the write of op
writtenTemplates(op) ==
  IF op.kind \in {"add", "duplicate"}
    THEN <<TemplateRow(nextTemplateId, op.name, op.content, op.variables, "1")>>
           \o dbTemplates
  ELSE IF op.kind = "update"
    THEN [r \in 1..Len(dbTemplates) |->
            IF dbTemplates[r].id = op.id
              THEN [dbTemplates[r] EXCEPT !.name = op.name,
                                          !.content = op.content,
                                          !.variables = op.variables]
              ELSE dbTemplates[r]]
  ELSE IF op.kind = "toggle"
    THEN [r \in 1..Len(dbTemplates) |->
            IF dbTemplates[r].id = op.id
              THEN [dbTemplates[r] EXCEPT !.isActive = op.isActive]
              ELSE dbTemplates[r]]
  ELSE SelectSeq(dbTemplates, LAMBDA row : row.id # op.id)

\* the success toast of each handler
TemplateDone(kind) ==
  IF kind = "add" THEN "Template added successfully"
  ELSE IF kind = "update" THEN "Template updated successfully"
  ELSE IF kind = "delete" THEN "Template deleted successfully"
  ELSE IF kind = "toggle" THEN "Template status updated"
  ELSE "Template duplicated successfully"

\* the catch toast of each handler
TemplateFailed(kind) ==
  IF kind = "add" THEN "Failed to add template"
  ELSE IF kind = "update" THEN "Failed to update template"
  ELSE IF kind = "delete" THEN "Failed to delete template"
  ELSE IF kind = "toggle" THEN "Failed to update template status"
  ELSE "Failed to duplicate template"

\* the rest of addTemplate, updateTemplate, deleteTemplate,
\* toggleTemplateStatus and duplicateTemplate: the write, then the dialog is
\* closed, loadTemplates() is called and the toast is shown
templateWrite(i, dbOk) ==
  /\ i \in 1..Len(tplOps)
  /\ LET op == tplOps[i]
         creates == op.kind \in {"add", "duplicate"}
     IN  /\ (dbOk /\ creates) => nextTemplateId <= MaxTemplateIds
         /\ tplOps' = RemoveAt(tplOps, i)
         /\ IF dbOk
              THEN /\ dbTemplates' = writtenTemplates(op)
                   /\ nextTemplateId' = IF creates THEN nextTemplateId + 1
                                                   ELSE nextTemplateId
                   /\ toast' = ToastSuccess(TemplateDone(op.kind))
                   /\ IF op.live
                        THEN /\ newTemplate' = IF op.kind = "add"
                                                 THEN InitialNewTemplate
                                                 ELSE newTemplate
                             /\ showAddDialog' = IF op.kind = "add"
                                                   THEN FALSE
                                                   ELSE showAddDialog
                             /\ editingTemplate' = IF op.kind = "update"
                                                     THEN << >>
                                                     ELSE editingTemplate
                             /\ tplLoadPending' = TRUE
                        ELSE UNCHANGED <<newTemplate, showAddDialog,
                                         editingTemplate, tplLoadPending>>
              ELSE /\ toast' = ToastError(TemplateFailed(op.kind))
                   /\ UNCHANGED <<dbTemplates, nextTemplateId, newTemplate,
                                  showAddDialog, editingTemplate, tplLoadPending>>
  /\ UNCHANGED <<currentPage, nonTemplateVars, templates, tplLoading>>

(***************************************************************************)
(* App: navigation                                                         *)
(***************************************************************************)
\* the suspended handlers of an unmounted component no longer reach its state
Orphaned(ops) == [i \in 1..Len(ops) |-> [ops[i] EXCEPT !.live = FALSE]]

\* onPageChange: the current page is unmounted and the new one is mounted
\* with its initial state and its mount effect pending
setCurrentPage(page) ==
  /\ page \in AllPages
  /\ page # currentPage
  /\ currentPage' = page
  /\ account' = InitialAccount
  /\ loading' = FALSE
  /\ verificationCode' = Empty
  /\ showVerification' = FALSE
  /\ twoFactorPassword' = Empty
  /\ showTwoFactor' = FALSE
  /\ validationErrors' = << >>
  /\ accountLoadPending' = (page = "account")
  /\ stats' = [isRunning |-> FALSE]
  /\ dashLoading' = TRUE
  /\ authOps' = Orphaned(authOps)
  /\ toggles' = Orphaned(toggles)
  /\ settings' = InitialSettings
  /\ settingsLoading' = TRUE
  /\ saving' = FALSE
  /\ saveOps' = Orphaned(saveOps)
  /\ templates' = << >>
  /\ tplLoading' = TRUE
  /\ tplLoadPending' = (page = "templates")
  /\ showAddDialog' = FALSE
  /\ newTemplate' = InitialNewTemplate
  /\ editingTemplate' = << >>
  /\ tplOps' = Orphaned(tplOps)
  /\ toast' = NoToast
  /\ UNCHANGED <<dbAccounts, dbSettings, httpResponse, codeSentFor,
                 passwordAskedFor, dbTemplates, nextTemplateId, dispatchVars>>

(***************************************************************************)
(* The edge function called by an HTTP client other than the page          *)
(***************************************************************************)
\* the requests of a client; a request carries the fields of its action
HttpRequests ==
  LET Bodies(action, codes, passwords) ==
        { Request(action, apiId, apiHash, phoneNumber, code, password, NoSession) :
            apiId \in {Empty, FixtureApiId, ValidApiId, <<"1", "2", "a">>},
            apiHash \in {Empty, ValidApiHash},
            phoneNumber \in {Empty, ValidPhone, FixturePhone},
            code \in codes,
            password \in passwords }
  IN  Bodies("send_code", {Empty}, {Empty})
        \cup Bodies("verify_code",
                    {Empty, CodeInvalid, CodeNeedsPassword,
                     <<"1", "1", "1", "1", "1">>},
                    {Empty})
        \cup Bodies("check_password", {Empty}, {Empty, WrongPassword, <<"p", "w">>})
        \cup Bodies("logout", {Empty}, {Empty})

\* a POST to the function URL
serveRequest(req, session) ==
  /\ req \in HttpRequests
  /\ LET credentials == TelegramCredentials(req.apiId, req.apiHash, req.phoneNumber)
         response == serve(req, session)
     IN  /\ httpResponse' = [status |-> response.status, action |-> req.action,
                             credentials |-> credentials,
                             known |-> credentials \in codeSentFor,
                             asked |-> credentials \in passwordAskedFor,
                             body |-> response.body]
         /\ codeSentFor' = IF req.action = "send_code" /\ response.body.success
                             THEN codeSentFor \cup {credentials}
                             ELSE codeSentFor
         /\ passwordAskedFor' =
              IF req.action = "verify_code" /\ response.body.requiresPassword
                THEN passwordAskedFor \cup {credentials}
                ELSE passwordAskedFor
  /\ UNCHANGED <<currentPage, account, loading, verificationCode,
                 showVerification, twoFactorPassword, showTwoFactor,
                 validationErrors, accountLoadPending, toast, authOps,
                 dbAccounts, dbSettings, stats, dashLoading, toggles>>
  /\ UNCHANGED <<settingsVars, templateVars, dispatchVars>>

(***************************************************************************)
(* Specifications                                                          *)
(***************************************************************************)
\* The whole application: the operator moves between the pages, types
\* well-formed values, and starts and stops the sender.
Next ==
  \/ \E value \in {ValidApiId} : SetApiId(value)
  \/ \E value \in {ValidApiHash} : SetApiHash(value)
  \/ \E value \in {ValidPhone} : SetPhoneNumber(value)
  \/ \E value \in {CodeNeedsPassword, <<"1", "1", "1", "1", "1">>} :
       SetVerificationCode(value)
  \/ \E value \in {<<"p", "w">>} : SetTwoFactorPassword(value)
  \/ Cancel
  \/ \E dbOk \in BOOLEAN : loadAccountData(dbOk)
  \/ validateAndSaveAccount
  \/ \E i \in 1..Len(authOps), netOk \in BOOLEAN, dbOk \in BOOLEAN :
       sendCodeResponse(i, netOk, dbOk)
  \/ \E i \in 1..Len(authOps), dbOk \in BOOLEAN : sendCodeSave(i, dbOk)
  \/ verifyTelegramCode
  \/ \E i \in 1..Len(authOps), netOk \in BOOLEAN, dbOk \in BOOLEAN,
        session \in SessionStrings :
       verifyCodeResponse(i, netOk, dbOk, session)
  \/ \E i \in 1..Len(authOps), dbOk \in BOOLEAN : verifyCodeSave(i, dbOk)
  \/ verifyTwoFactorPassword
  \/ \E i \in 1..Len(authOps), netOk \in BOOLEAN, dbOk \in BOOLEAN,
        session \in SessionStrings :
       checkPasswordResponse(i, netOk, dbOk, session)
  \/ \E i \in 1..Len(authOps), dbOk \in BOOLEAN : checkPasswordSave(i, dbOk)
  \/ disconnectAccount
  \/ \E i \in 1..Len(authOps), dbOk \in BOOLEAN : disconnectList(i, dbOk)
  \/ \E i \in 1..Len(authOps), dbOk \in BOOLEAN : disconnectSave(i, dbOk)
  \/ \E dbOk \in BOOLEAN : loadDashboardData(dbOk)
  \/ toggleSender
  \/ \E i \in 1..Len(toggles), dbOk \in BOOLEAN : toggleList(i, dbOk)
  \/ \E i \in 1..Len(toggles), dbOk \in BOOLEAN : toggleWrite(i, dbOk)
  \/ \E page \in Pages : setCurrentPage(page)

Spec == Init /\ [][Next]_vars

\* The Account Setup page: the operator opens it and stays on it, and types
\* well-formed and malformed values.
NextAccount ==
  \/ \E value \in ApiIdInputs : SetApiId(value)
  \/ \E value \in ApiHashInputs : SetApiHash(value)
  \/ \E value \in PhoneInputs : SetPhoneNumber(value)
  \/ \E value \in CodeInputs : SetVerificationCode(value)
  \/ \E value \in PasswordInputs : SetTwoFactorPassword(value)
  \/ Cancel
  \/ \E dbOk \in BOOLEAN : loadAccountData(dbOk)
  \/ validateAndSaveAccount
  \/ \E i \in 1..Len(authOps), netOk \in BOOLEAN, dbOk \in BOOLEAN :
       sendCodeResponse(i, netOk, dbOk)
  \/ \E i \in 1..Len(authOps), dbOk \in BOOLEAN : sendCodeSave(i, dbOk)
  \/ verifyTelegramCode
  \/ \E i \in 1..Len(authOps), netOk \in BOOLEAN, dbOk \in BOOLEAN,
        session \in SessionStrings :
       verifyCodeResponse(i, netOk, dbOk, session)
  \/ \E i \in 1..Len(authOps), dbOk \in BOOLEAN : verifyCodeSave(i, dbOk)
  \/ verifyTwoFactorPassword
  \/ \E i \in 1..Len(authOps), netOk \in BOOLEAN, dbOk \in BOOLEAN,
        session \in SessionStrings :
       checkPasswordResponse(i, netOk, dbOk, session)
  \/ \E i \in 1..Len(authOps), dbOk \in BOOLEAN : checkPasswordSave(i, dbOk)
  \/ disconnectAccount
  \/ \E i \in 1..Len(authOps), dbOk \in BOOLEAN : disconnectList(i, dbOk)
  \/ \E i \in 1..Len(authOps), dbOk \in BOOLEAN : disconnectSave(i, dbOk)
  \/ setCurrentPage("account")

SpecAccount == Init /\ [][NextAccount]_vars

\* The form of the Account Setup page: the operator types any of the form
\* inputs and asks for the code.
NextForm ==
  \/ \E value \in FormApiIdInputs : SetApiId(value)
  \/ \E value \in FormApiHashInputs : SetApiHash(value)
  \/ \E value \in PhoneRawInputs : SetPhoneNumber(value)
  \/ \E dbOk \in BOOLEAN : loadAccountData(dbOk)
  \/ validateAndSaveAccount
  \/ \E i \in 1..Len(authOps), netOk \in BOOLEAN, dbOk \in BOOLEAN :
       sendCodeResponse(i, netOk, dbOk)
  \/ \E i \in 1..Len(authOps), dbOk \in BOOLEAN : sendCodeSave(i, dbOk)
  \/ setCurrentPage("account")

SpecForm == Init /\ [][NextForm]_vars

\* The Templates page: the operator adds, edits, duplicates, toggles and
\* deletes templates; the list of the templates does not fail.
NextTemplates ==
  \/ loadTemplates(TRUE)
  \/ \E open \in BOOLEAN : SetShowAddDialog(open)
  \/ \E value \in TemplateNameInputs : SetNewTemplateName(value)
  \/ \E value \in TemplateContentInputs : SetNewTemplateContent(value)
  \/ addTemplate
  \/ \E k \in 1..Len(templates) : SetEditingTemplate(k)
  \/ CloseEditDialog
  \/ \E value \in {TemplateName} : SetEditingName(value)
  \/ \E value \in EditedContentInputs : SetEditingContent(value)
  \/ updateTemplate
  \/ \E k \in 1..Len(templates) : deleteTemplate(k)
  \/ \E k \in 1..Len(templates) : toggleTemplateStatus(k)
  \/ \E k \in 1..Len(templates) : duplicateTemplate(k)
  \/ \E i \in 1..Len(tplOps), dbOk \in BOOLEAN : templateWrite(i, dbOk)
  \/ setCurrentPage("templates")

SpecTemplates == Init /\ [][NextTemplates]_vars

\* The Settings page: the operator opens it, edits the settings and saves.
NextSettings ==
  \/ \E dbOk \in BOOLEAN : loadSettings(dbOk)
  \/ \E value \in {30} : SetGroupDelay(value)
  \/ \E value \in {120} : SetCycleDelay(value)
  \/ \E value \in {50} : SetRateLimitBuffer(value)
  \/ \E raw \in MaxRetriesInputs : SetMaxRetries(raw)
  \/ saveSettings
  \/ \E i \in 1..Len(saveOps), dbOk \in BOOLEAN : saveList(i, dbOk)
  \/ \E i \in 1..Len(saveOps), dbOk \in BOOLEAN : saveWrite(i, dbOk)
  \/ setCurrentPage("settings")

SpecSettings == Init /\ [][NextSettings]_vars

\* The Dashboard and the Settings page: the operator starts and stops the
\* sender, saves the settings, and moves between the two pages.
NextConfig ==
  \/ \E dbOk \in BOOLEAN : loadDashboardData(dbOk)
  \/ toggleSender
  \/ \E i \in 1..Len(toggles), dbOk \in BOOLEAN : toggleList(i, dbOk)
  \/ \E i \in 1..Len(toggles), dbOk \in BOOLEAN : toggleWrite(i, dbOk)
  \/ \E dbOk \in BOOLEAN : loadSettings(dbOk)
  \/ \E raw \in {<<"9", "9">>} : SetMaxRetries(raw)
  \/ saveSettings
  \/ \E i \in 1..Len(saveOps), dbOk \in BOOLEAN : saveList(i, dbOk)
  \/ \E i \in 1..Len(saveOps), dbOk \in BOOLEAN : saveWrite(i, dbOk)
  \/ \E page \in {"dashboard", "settings"} : setCurrentPage(page)

SpecConfig == Init /\ [][NextConfig]_vars

NextServe ==
  \E req \in HttpRequests, session \in SessionStrings : serveRequest(req, session)

\* the edge function serving arbitrary HTTP clients; it keeps no state, so
\* these requests do not interact with the pages
SpecServe == Init /\ [][NextServe]_vars

(***************************************************************************)
(* Claims                                                                  *)
(***************************************************************************)
\* the format rules of the credentials, as the specification states them
WellFormed(credentials) ==
  /\ IsNumeric(credentials.apiId)
  /\ Len(credentials.apiId) \in 6..8
  /\ IsApiHash(credentials.apiHash)
  /\ IsPhone(credentials.phoneNumber)

\* C1: requestCode invoked in CodeSent, AwaitingPassword or Authenticated is
\* refused with an error, starts no AuthChannel call, and leaves the auth
\* state and the stored credentials unchanged.
C1_RequestCodeRefusedOutsideUnauthenticated ==
  [][(AuthState # "Unauthenticated" /\ validateAndSaveAccount)
       => /\ toast'.kind = "error"
          /\ authOps' = authOps
          /\ AuthState' = AuthState
          /\ dbAccounts' = dbAccounts]_vars

\* C2: verify_code for credentials for which no send_code has succeeded is
\* refused (the result is a failure that is not the second-factor signal)
\* and issues no session string.
C2_SubmitCodeBeforeRequestCodeRefused ==
  (httpResponse.action = "verify_code" /\ ~httpResponse.known)
    => /\ ~httpResponse.body.success
       /\ ~httpResponse.body.requiresPassword
       /\ httpResponse.body.sessionString = NoSession

\* C3: the sender is never marked running in storage while the stored account
\* holds no session.
C3_RunningOnlyWhenAuthenticated == StorageRunning => StorageAuthenticated

\* C4: a requestCode whose credentials violate a format rule lists the
\* validation errors, starts no AuthChannel call, writes nothing to storage
\* and leaves the auth state as it is; every AuthChannel.requestCode call
\* carries credentials that satisfy all the format rules.
C4_MalformedCredentialsNeverSent ==
  [][validateAndSaveAccount
       => /\ ~WellFormed(formCredentials)
             => /\ validationErrors' # << >>
                /\ toast' = ToastError("Please fix the validation errors")
                /\ authOps' = authOps
                /\ dbAccounts' = dbAccounts
                /\ AuthState' = AuthState
          /\ authOps' # authOps
             => /\ WellFormed(authOps'[Len(authOps')].credentials)
                /\ authOps'[Len(authOps')].op = "sendCode"]_vars

\* C4 witness: a requestCode from Unauthenticated with malformed credentials
\* has just been refused.
C4_Witness ==
  /\ currentPage = "account"
  /\ toast = ToastError("Please fix the validation errors")
  /\ ~WellFormed(formCredentials)
  /\ validationErrors # << >>
  /\ authOps = << >>
  /\ dbAccounts = << >>
  /\ AuthState = "Unauthenticated"

\* the other fields of the form are well-formed and the API ID is "12345"
FixtureForm ==
  /\ formCredentials.apiId = FixtureApiId
  /\ IsApiHash(formCredentials.apiHash)
  /\ IsPhone(formCredentials.phoneNumber)

\* C5 as stated: requestCode with apiId "12345" reaches the engine, whose
\* rejection INVALID_CREDENTIALS is what the page reports.
C5_FixtureReachesEngine ==
  [][(FixtureForm /\ validateAndSaveAccount)
       => \/ authOps' # authOps
          \/ validationErrors'
               = <<"Invalid API credentials. Please check your API ID and Hash.">>]_vars

\* C5 amended: requestCode with apiId "12345" is refused by the credential
\* validator (the API ID is not 6-8 digits long): no AuthChannel call is
\* started and the auth state is unchanged; the rejection INVALID_CREDENTIALS
\* is what the send_code operation itself answers for that API ID.
C5_FixtureRejectedByValidator ==
  [][(FixtureForm /\ validateAndSaveAccount)
       => /\ validationErrors' = <<ErrApiIdLength>>
          /\ authOps' = authOps
          /\ AuthState' = AuthState
          /\ sendVerificationCode(formCredentials.apiId, formCredentials.apiHash,
                                  formCredentials.phoneNumber).error
               = "INVALID_CREDENTIALS"]_vars

\* C5 witness: a requestCode with apiId "12345" and otherwise well-formed
\* credentials has just been refused from Unauthenticated.
C5_Witness ==
  /\ currentPage = "account"
  /\ FixtureForm
  /\ toast = ToastError("Please fix the validation errors")
  /\ validationErrors = <<ErrApiIdLength>>
  /\ authOps = << >>
  /\ AuthState = "Unauthenticated"

DisconnectedToast == ToastSuccess("Account disconnected successfully")

\* disconnectAccount applied to the state of the page changes nothing
DisconnectFixpoint ==
  /\ account = disconnectedAccount(account)
  /\ ~showVerification
  /\ ~showTwoFactor
  /\ verificationCode = Empty
  /\ twoFactorPassword = Empty
  /\ dbAccounts # << >> => dbAccounts[1] = disconnectedRow(dbAccounts[1])

C7_DisconnectClearsSessionAndCredentials ==
  (currentPage = "account" /\ toast = DisconnectedToast)
    => /\ account.sessionString = NoSession
       /\ account.user = NoUser
       /\ account.apiId = Empty
       /\ account.apiHash = Empty
       /\ account.phoneNumber = Empty
       /\ \A r \in 1..Len(dbAccounts) :
            /\ dbAccounts[r].sessionString = NoSession
            /\ dbAccounts[r].userData = NoUser
            /\ dbAccounts[r].apiId = Empty
            /\ dbAccounts[r].apiHash = Empty
            /\ dbAccounts[r].phoneNumber = Empty

\* C8: a disconnect stops the sender: when a disconnect ends the stored
\* session while storage says that the sender runs, storage no longer says so
\* afterwards.
C8_DisconnectStopsSender ==
  [][\A i \in 1..Len(authOps), dbOk \in BOOLEAN :
       (/\ StorageAuthenticated
        /\ StorageRunning
        /\ disconnectSave(i, dbOk)
        /\ ~StorageAuthenticated')
         => ~StorageRunning']_vars

\* the platform rejects the code of a suspended verifyTelegramCode
PlatformRejectsCode(op) ==
  apiVerifyCode(op.credentials, op.code, TRUE, NoSession).error = "INVALID_CODE"

\* the platform asks for the second factor
PlatformRequiresPassword(op) ==
  apiVerifyCode(op.credentials, op.code, TRUE, NoSession).requiresPassword

\* C9: from CodeSent, a submitCode that the platform rejects reports the
\* invalid code, issues no session (the account and storage are unchanged)
\* and leaves the state CodeSent with the Verify Code button enabled.
C9_RejectedCodeStaysCodeSent ==
  [][\A i \in 1..Len(authOps), dbOk \in BOOLEAN, session \in SessionStrings :
       (/\ AuthState = "CodeSent"
        /\ PlatformRejectsCode(authOps[i])
        /\ verifyCodeResponse(i, TRUE, dbOk, session))
         => /\ toast' = ToastError("Invalid verification code. Please try again.")
            /\ AuthState' = "CodeSent"
            /\ account' = account
            /\ dbAccounts' = dbAccounts
            /\ VerifyCodeEnabled']_vars

\* C9 witness: in CodeSent, the code 12345 has just been rejected.
C9_Witness ==
  /\ currentPage = "account"
  /\ toast = ToastError("Invalid verification code. Please try again.")
  /\ AuthState = "CodeSent"
  /\ verificationCode = CodeInvalid
  /\ ~account.isConnected
  /\ ~StorageAuthenticated
  /\ VerifyCodeEnabled

\* C10: from CodeSent, a submitCode for which the platform asks for the
\* second factor issues no session and moves the state to AwaitingPassword,
\* and no other step enters AwaitingPassword.
C10_PasswordStepOnlyAfterCode ==
  [][/\ \A i \in 1..Len(authOps), dbOk \in BOOLEAN, session \in SessionStrings :
          (/\ AuthState = "CodeSent"
           /\ PlatformRequiresPassword(authOps[i])
           /\ verifyCodeResponse(i, TRUE, dbOk, session))
            => /\ AuthState' = "AwaitingPassword"
               /\ account' = account
               /\ dbAccounts' = dbAccounts
     /\ (AuthState # "AwaitingPassword" /\ AuthState' = "AwaitingPassword")
          => /\ AuthState = "CodeSent"
             /\ toast' = ToastError("Two-factor authentication is enabled. Please enter your password.")]_vars

\* exactly five digits
FiveDigits(code) == Len(code) = 5 /\ \A k \in 1..Len(code) : code[k] \in Digit

\* C11: a submitCode whose code is not exactly five digits is refused with
\* the format error (the code is asked for when the field is empty), starts
\* no AuthChannel call and leaves the state CodeSent, the account and storage
\* as they are; the code of every started verifyCode has five digits.
C11_MalformedCodeNeverSent ==
  [][verifyTelegramCode
       => /\ ~FiveDigits(verificationCode)
               => /\ toast' = IF verificationCode = Empty
                                THEN ToastError("Please enter the verification code")
                                ELSE ToastError("Verification code must be 5 digits")
                  /\ authOps' = authOps
                  /\ AuthState' = "CodeSent"
                  /\ account' = account
                  /\ dbAccounts' = dbAccounts
          /\ authOps' # authOps
               => /\ FiveDigits(authOps'[Len(authOps')].code)
                  /\ authOps'[Len(authOps')].op = "verifyCode"]_vars

\* C11 witness: in CodeSent, the two-digit code 12 has just been refused.
C11_Witness ==
  /\ currentPage = "account"
  /\ toast = ToastError("Verification code must be 5 digits")
  /\ verificationCode = <<"1", "2">>
  /\ AuthState = "CodeSent"
  /\ authOps = << >>

\* the check_password request of a suspended verifyTwoFactorPassword carries
\* the fields that serve requires, so that it is handed to checkPassword
PasswordReachesPlatform(op) ==
  /\ op.credentials.apiId # Empty
  /\ op.credentials.apiHash # Empty
  /\ op.password # Empty

\* C12: from AwaitingPassword, a submitPassword that the platform rejects
\* reports the invalid password, issues no session (the account and storage
\* are unchanged), ends the call and leaves the state AwaitingPassword with
\* the Verify Password button enabled; a call is started only by a button
\* handler, one per click, so nothing is retried.
C12_RejectedPasswordStaysAwaitingPassword ==
  [][/\ \A i \in 1..Len(authOps), dbOk \in BOOLEAN, session \in SessionStrings :
          (/\ AuthState = "AwaitingPassword"
           /\ PasswordReachesPlatform(authOps[i])
           /\ authOps[i].password = WrongPassword
           /\ checkPasswordResponse(i, TRUE, dbOk, session))
            => /\ toast' = ToastError("Invalid two-factor authentication password.")
               /\ AuthState' = "AwaitingPassword"
               /\ account' = account
               /\ dbAccounts' = dbAccounts
               /\ authOps' = RemoveAt(authOps, i)
               /\ VerifyPasswordEnabled'
     /\ Len(authOps') > Len(authOps)
          => /\ Len(authOps') = Len(authOps) + 1
             /\ \/ validateAndSaveAccount
                \/ verifyTelegramCode
                \/ verifyTwoFactorPassword
                \/ disconnectAccount]_vars

\* C12 witness: in AwaitingPassword, the password "wrongpassword" has just
\* been rejected.
C12_Witness ==
  /\ currentPage = "account"
  /\ toast = ToastError("Invalid two-factor authentication password.")
  /\ twoFactorPassword = WrongPassword
  /\ AuthState = "AwaitingPassword"
  /\ ~StorageAuthenticated
  /\ authOps = << >>

\* empty or made of whitespace only
Blank(s) == \A k \in 1..Len(s) : s[k] \in Whitespace

\* C13: a submitPassword with an empty (or blank) password is refused on the
\* page: no AuthChannel call is started and the state stays AwaitingPassword;
\* the password of every started checkPassword is not empty.
C13_EmptyPasswordNeverSent ==
  [][verifyTwoFactorPassword
       => /\ Blank(twoFactorPassword)
               => /\ toast' = ToastError("Please enter your two-factor password")
                  /\ authOps' = authOps
                  /\ AuthState' = "AwaitingPassword"
                  /\ account' = account
                  /\ dbAccounts' = dbAccounts
          /\ authOps' # authOps
               => /\ ~Blank(authOps'[Len(authOps')].password)
                  /\ authOps'[Len(authOps')].op = "checkPassword"]_vars

\* C13 witness: in AwaitingPassword, an empty password has just been refused.
C13_Witness ==
  /\ currentPage = "account"
  /\ toast = ToastError("Please enter your two-factor password")
  /\ twoFactorPassword = Empty
  /\ AuthState = "AwaitingPassword"
  /\ authOps = << >>

\* the ranges of a run configuration (a rate limit buffer that the row does
\* not hold is not judged)
ConfigInRange(row) ==
  /\ row.groupDelay \in 5..30
  /\ row.cycleDelay \in 60..120
  /\ row.maxRetries \in 1..10
  /\ row.rateLimitBuffer # NoValue => row.rateLimitBuffer[1] \in 0..50

\* C14: every stored run configuration has groupDelay in [5,30], cycleDelay
\* in [60,120], maxRetries in [1,10] and rateLimitBuffer in [0,50].
C14_StoredConfigInRange ==
  \A r \in 1..Len(dbSettings) : ConfigInRange(dbSettings[r])

\* C15: storage holds at most one run configuration of the operator.
C15_OneConfigPerOperator == Len(dbSettings) <= 1

\* the number of format rules (API ID numeric, API ID of 6 to 8 characters,
\* API hash of 32 lowercase hex characters, phone of + and 10 to 15 digits)
\* that the credentials violate
ViolatedRules(credentials) ==
  (IF IsNumeric(credentials.apiId) THEN 0 ELSE 1)
  + (IF Len(credentials.apiId) \in 6..8 THEN 0 ELSE 1)
  + (IF IsApiHash(credentials.apiHash) THEN 0 ELSE 1)
  + (IF IsPhone(credentials.phoneNumber) THEN 0 ELSE 1)

\* C16: the validation of credentials whose fields are all filled in lists
\* one error per violated rule.
C16_OneErrorPerViolatedRule ==
  [][(/\ validateAndSaveAccount
      /\ formCredentials.apiId # Empty
      /\ formCredentials.apiHash # Empty)
       => /\ Len(validateCredentials(formCredentials).errors)
               = ViolatedRules(formCredentials)
          /\ Len(validationErrors') = ViolatedRules(formCredentials)]_vars

\* the errors of each field
ApiIdErrorTexts == {ErrApiIdRequired, ErrApiIdNumeric, ErrApiIdLength}

ApiHashErrorTexts == {ErrApiHashRequired, ErrApiHashFormat}

PhoneErrorTexts == {ErrPhoneRequired, ErrPhoneFormat}

\* the errors are errors of one field, and there is at least one
ErrorsOfField(errors, texts) ==
  /\ errors # << >>
  /\ \A k \in 1..Len(errors) : errors[k] \in texts

\* C17: the validation accepts well-formed credentials with an empty error
\* list (and the code is asked for); for credentials with exactly one
\* malformed field it is not ok and lists errors of that field only.
C17_ValidAcceptedOneFieldReported ==
  [][validateAndSaveAccount
       => LET c == formCredentials
              v == validateCredentials(c)
              okId == IsNumeric(c.apiId) /\ Len(c.apiId) \in 6..8
              okHash == IsApiHash(c.apiHash)
              okPhone == IsPhone(c.phoneNumber)
          IN  /\ (okId /\ okHash /\ okPhone)
                   => /\ v.isValid
                      /\ v.errors = << >>
                      /\ validationErrors' = << >>
                      /\ authOps' # authOps
              /\ (~okId /\ okHash /\ okPhone)
                   => /\ ~v.isValid
                      /\ ErrorsOfField(v.errors, ApiIdErrorTexts)
                      /\ validationErrors' = v.errors
              /\ (okId /\ ~okHash /\ okPhone)
                   => /\ ~v.isValid
                      /\ ErrorsOfField(v.errors, ApiHashErrorTexts)
                      /\ validationErrors' = v.errors
              /\ (okId /\ okHash /\ ~okPhone)
                   => /\ ~v.isValid
                      /\ ErrorsOfField(v.errors, PhoneErrorTexts)
                      /\ validationErrors' = v.errors]_vars

\* C17 witness: credentials whose only malformed field is the API hash (an
\* uppercase letter) have just been validated.
C17_Witness ==
  /\ currentPage = "account"
  /\ toast = ToastError("Please fix the validation errors")
  /\ validationErrors = <<ErrApiHashFormat>>
  /\ formCredentials.apiId = ValidApiId
  /\ formCredentials.apiHash # Empty
  /\ ~IsApiHash(formCredentials.apiHash)
  /\ IsPhone(formCredentials.phoneNumber)

\* C18: the phone number that the form keeps after any input is one + followed
\* by digits only, the digits of the input.
C18_NormalizedPhoneIsPlusAndDigits ==
  [][\A value \in PhoneRawInputs :
       SetPhoneNumber(value)
         => LET r == account'.phoneNumber
            IN  /\ r # Empty
                /\ r[1] = "+"
                /\ \A k \in 2..Len(r) : r[k] \in Digit
                /\ Tail(r) = SelectSeq(value, LAMBDA ch : ch \in Digit)]_vars

\* C19: formatPhoneNumber is idempotent: formatting the phone number that
\* the form keeps after any input (it is formatted again when the code is
\* asked for) changes nothing.
C19_FormatPhoneNumberIdempotent ==
  [][\A value \in PhoneRawInputs :
       SetPhoneNumber(value)
         => /\ formatPhoneNumber(formatPhoneNumber(value)) = formatPhoneNumber(value)
            /\ formatPhoneNumber(account'.phoneNumber) = account'.phoneNumber
            /\ formCredentials'.phoneNumber = account'.phoneNumber]_vars

\* C19 witness: the form keeps the phone number made from the input "1+2".
C19_Witness ==
  /\ currentPage = "account"
  /\ account.phoneNumber = formatPhoneNumber(<<"1", "+", "2">>)
  /\ account.phoneNumber # <<"1", "+", "2">>
  /\ formCredentials.phoneNumber = account.phoneNumber

\* content[i..j] is a token {{name}}: two opening braces, a name of at least
\* one character without a closing brace, two closing braces
IsToken(content, i, j) ==
  /\ j - i >= 4
  /\ content[i] = "{" /\ content[i + 1] = "{"
  /\ content[j - 1] = "}" /\ content[j] = "}"
  /\ \A k \in (i + 2)..(j - 2) : content[k] # "}"

\* the tokens of content read from left to right: a token that starts inside
\* a token read before it is not read
Tokens(content) ==
  LET all == {t \in (1..Len(content)) \X (1..Len(content)) :
                IsToken(content, t[1], t[2])}
  IN  CHOOSE read \in SUBSET all :
        \A t \in all :
          t \in read <=> ~\E u \in read : u[1] < t[1] /\ t[1] <= u[2]

\* variables lists the distinct names of the tokens of content, each once, in
\* the order of their first tokens
DistinctTokensInOrder(variables, content) ==
  LET read == Tokens(content)
      NameOf(t) == trim(SubSeq(content, t[1] + 2, t[2] - 2))
      First(name) ==
        CHOOSE i \in {t[1] : t \in read} :
          /\ \E t \in read : t[1] = i /\ NameOf(t) = name
          /\ \A t \in read : NameOf(t) = name => i <= t[1]
  IN  /\ \A k \in 1..Len(variables) : \E t \in read : NameOf(t) = variables[k]
      /\ \A t \in read : \E k \in 1..Len(variables) : variables[k] = NameOf(t)
      /\ \A k, l \in 1..Len(variables) :
           k < l => /\ variables[k] # variables[l]
                    /\ First(variables[k]) < First(variables[l])

\* C20: the variables of every stored template are the distinct {{name}}
\* tokens of its stored content, in the order of their first appearance.
C20_StoredVariablesAreContentTokens ==
  \A r \in 1..Len(dbTemplates) :
    DistinctTokensInOrder(dbTemplates[r].variables, dbTemplates[r].content)

\* C20 witness: a template with a repeated variable was added and duplicated,
\* the original was deleted, the copy was edited and switched off, and
\* another template with the repeated variable is being added.
C20_Witness ==
  /\ Len(dbTemplates) = 1
  /\ dbTemplates[1].id = 2
  /\ dbTemplates[1].name = TemplateName \o CopySuffix
  /\ dbTemplates[1].isActive = "0"
  /\ dbTemplates[1].content = <<"{", "{", "a", "}", "}", "}", "x">>
  /\ dbTemplates[1].variables = <<<<"a">>>>
  /\ \E i \in 1..Len(tplOps) :
       /\ tplOps[i].kind = "add"
       /\ tplOps[i].content = Tail(TwoVariables)
       /\ tplOps[i].variables = <<<<"b">>, <<"a">>>>

\* C26: check_password issues a session string only for credentials for which
\* a send_code has succeeded and a verify_code has then asked for the
\* password.
C26_PasswordSessionOnlyAfterVerifyCode ==
  (httpResponse.action = "check_password"
     /\ httpResponse.body.sessionString # NoSession)
    => /\ httpResponse.known
       /\ httpResponse.asked

\* C27: on the Account Setup page the second-factor step is shown only while
\* the code step is shown and the account is not connected.
C27_TwoFactorOnlyWithinCodeStep ==
  (currentPage = "account" /\ showTwoFactor)
    => /\ showVerification
       /\ ~account.isConnected

\* C28: the credentials sent with a code or with a password are the
\* credentials that the last accepted code request stored.
C28_ChallengeKeepsCredentials ==
  [][((verifyTelegramCode \/ verifyTwoFactorPassword)
        /\ Len(authOps') > Len(authOps))
       => /\ dbAccounts # << >>
          /\ authOps'[Len(authOps')].credentials
               = TelegramCredentials(dbAccounts[1].apiId, dbAccounts[1].apiHash,
                                     dbAccounts[1].phoneNumber)]_vars

(***************************************************************************)
(* The Dashboard alone                                                     *)
(***************************************************************************)
\* The operator stays on the Dashboard and starts and stops the sender.
NextDashboard ==
  \/ \E dbOk \in BOOLEAN : loadDashboardData(dbOk)
  \/ toggleSender
  \/ \E i \in 1..Len(toggles), dbOk \in BOOLEAN : toggleList(i, dbOk)
  \/ \E i \in 1..Len(toggles), dbOk \in BOOLEAN : toggleWrite(i, dbOk)

SpecDashboard == Init /\ [][NextDashboard]_vars

\* C29: on the Dashboard, once no toggleSender call is suspended any more, the
\* running flag shown locally is the running flag in storage.
C29_LocalRunningEqualsStorage ==
  (currentPage = "dashboard" /\ ~dashLoading /\ toggles = << >>)
    => (stats.isRunning <=> StorageRunning)

\* C30: while an auth operation awaits its network or storage result, none of
\* Connect, Verify Code, Verify Password and Disconnect can start another one.
C30_OneAuthOperationInFlight ==
  authOps # << >>
    => ~(ConnectEnabled \/ VerifyCodeEnabled \/ VerifyPasswordEnabled \/ DisconnectEnabled)

(***************************************************************************)
(* Group Management: the switch of a group                                 *)
(***************************************************************************)
\* what the handlers and the loop of this section leave alone besides toast
nonDispatchVars == <<currentPage, accountVars, dashVars, authOps, dbAccounts,
                     dbSettings, toggles, httpResponse, codeSentFor,
                     passwordAskedFor, settingsVars, templateVars>>

\* a telegramGroups row; the id of a group is its position in creation order
GroupRow(id, isActive) == [id |-> id, isActive |-> isActive]

\* toggleGroupStatus that takes a group it switches on off the blacklist
toggleGroupStatus_ClearsBlacklist(groupId, currentStatus, dbOk) ==
  /\ currentPage = "groups"
  /\ groupId \in 1..Len(dbGroups)
  /\ IF dbOk
       THEN /\ dbGroups' = [dbGroups EXCEPT
                              ![groupId].isActive = IF currentStatus = "1" THEN "0" ELSE "1"]
            /\ dbBlacklist' = IF currentStatus = "1" THEN dbBlacklist
                                                       ELSE dbBlacklist \ {groupId}
            /\ toast' = NoToast
       ELSE /\ toast' = ToastError("Failed to update group status")
            /\ UNCHANGED <<dbGroups, dbBlacklist>>
  /\ UNCHANGED <<nonDispatchVars, consecutiveFailures, schedulers, dbLogs>>

\* toggleGroupStatus(groupId, currentStatus): currentStatus is group.isActive
\* of the list the page shows, which a write that has not been reloaded yet
\* leaves behind storage; dbOk is whether telegramGroups.update resolves
toggleGroupStatus(groupId, currentStatus, dbOk) ==
  /\ currentPage = "groups"
  /\ groupId \in 1..Len(dbGroups)
  /\ IF dbOk
       THEN /\ dbGroups' = [dbGroups EXCEPT
                              ![groupId].isActive = IF currentStatus = "1" THEN "0" ELSE "1"]
            /\ toast' = NoToast
       ELSE /\ toast' = ToastError("Failed to update group status")
            /\ UNCHANGED dbGroups
  /\ UNCHANGED <<nonDispatchVars, dbBlacklist, consecutiveFailures, schedulers, dbLogs>>

(***************************************************************************)
(* The sender: RetryPolicy, BlacklistManager and DispatchScheduler, which  *)
(* read userSettings and telegramGroups and write blacklistedGroups and    *)
(* messageLogs                                                             *)
(***************************************************************************)
\* RetryPolicy.shouldRetry
shouldRetry(attemptNumber, maxRetries) == attemptNumber <= maxRetries

\* a BlacklistManager that blacklists one failure early
shouldBlacklist_OneEarly(autoBlacklist, failures, maxRetries) ==
  autoBlacklist /\ failures >= maxRetries

\* BlacklistManager: a terminal failure that leaves the channel with this
\* many consecutive failures blacklists it
shouldBlacklist(autoBlacklist, failures, maxRetries) ==
  autoBlacklist /\ failures > maxRetries

\* the RunConfig in storage
RunConfig ==
  [maxRetries |-> dbSettings[1].maxRetries,
   autoBlacklist |-> dbSettings[1].autoBlacklist = "1"]

\* the channels with active && !blacklisted, in creation order
EligibleChannels ==
  SelectSeq([g \in 1..Len(dbGroups) |-> g],
            LAMBDA g : dbGroups[g].isActive = "1" /\ g \notin dbBlacklist)

\* a LogEntry
LogEntry(channelId, status, errorKind) ==
  [channelId |-> channelId, status |-> status, errorKind |-> errorKind]

\* the outcomes of AuthChannel.send
SendOutcomes == {"success", "transient", "permanent"}

\* a scheduler loop: pc is "cycle" at the top of a cycle, "channel" before a
\* send to the head of queue, "sending" while the send is in flight, "wait"
\* during the cycle delay; config is the RunConfig read at the cycle start
SchedulerLoop(pc, queue, attemptNumber, config) ==
  [pc |-> pc, queue |-> queue, attemptNumber |-> attemptNumber, config |-> config]

\* a start that does not look for an active loop
startScheduler_Unchecked ==
  /\ StorageAuthenticated
  /\ StorageRunning
  /\ Len(schedulers) < 2
  /\ schedulers' = Append(schedulers, SchedulerLoop("cycle", << >>, 1, RunConfig))
  /\ toast' = NoToast
  /\ UNCHANGED <<nonDispatchVars, dbGroups, dbBlacklist, consecutiveFailures, dbLogs>>

\* start of the scheduler: refused unless the session is authenticated and
\* the configuration says running, and a no-op while a loop is active
startScheduler ==
  /\ StorageAuthenticated
  /\ StorageRunning
  /\ schedulers = << >>
  /\ schedulers' = <<SchedulerLoop("cycle", << >>, 1, RunConfig)>>
  /\ toast' = NoToast
  /\ UNCHANGED <<nonDispatchVars, dbGroups, dbBlacklist, consecutiveFailures, dbLogs>>

\* top of a cycle: the loop stops when the precondition fails, else it reads
\* the configuration and snapshots the eligible channels
cycleStart(k) ==
  /\ k \in 1..Len(schedulers)
  /\ schedulers[k].pc = "cycle"
  /\ schedulers' =
       IF ~(StorageAuthenticated /\ StorageRunning)
         THEN RemoveAt(schedulers, k)
         ELSE [schedulers EXCEPT
                 ![k] = SchedulerLoop(IF EligibleChannels = << >> THEN "wait" ELSE "channel",
                                      EligibleChannels, 1, RunConfig)]
  /\ toast' = NoToast
  /\ UNCHANGED <<nonDispatchVars, dbGroups, dbBlacklist, consecutiveFailures, dbLogs>>

\* a loop that starts the send without reading the running flag
beginSend_Unchecked(k) ==
  /\ k \in 1..Len(schedulers)
  /\ schedulers[k].pc = "channel"
  /\ schedulers' = [schedulers EXCEPT ![k].pc = "sending"]
  /\ toast' = NoToast
  /\ UNCHANGED <<nonDispatchVars, dbGroups, dbBlacklist, consecutiveFailures, dbLogs>>

\* before every send (the first attempt and every retry): the loop stops
\* when running is false, else the send starts
beginSend(k) ==
  /\ k \in 1..Len(schedulers)
  /\ schedulers[k].pc = "channel"
  /\ schedulers' =
       IF ~StorageRunning
         THEN RemoveAt(schedulers, k)
         ELSE [schedulers EXCEPT ![k].pc = "sending"]
  /\ toast' = NoToast
  /\ UNCHANGED <<nonDispatchVars, dbGroups, dbBlacklist, consecutiveFailures, dbLogs>>

\* the loop after the final outcome of the head of its queue
nextChannel(loop) ==
  SchedulerLoop(IF Tail(loop.queue) = << >> THEN "wait" ELSE "channel",
                Tail(loop.queue), 1, loop.config)

\* BlacklistManager.onResult and the LogEntry of a final outcome
onResult(k, success) ==
  LET loop == schedulers[k]
      channel == Head(loop.queue)
      failures == consecutiveFailures[channel] + 1
      blacklist == shouldBlacklist(loop.config.autoBlacklist, failures,
                                   loop.config.maxRetries)
  IN  /\ schedulers' = [schedulers EXCEPT ![k] = nextChannel(loop)]
      /\ IF success
           THEN /\ consecutiveFailures' = [consecutiveFailures EXCEPT ![channel] = 0]
                /\ dbLogs' = Append(dbLogs, LogEntry(channel, "success", None))
                /\ UNCHANGED dbBlacklist
           ELSE /\ consecutiveFailures' = [consecutiveFailures EXCEPT ![channel] = failures]
                /\ dbBlacklist' = IF blacklist THEN dbBlacklist \cup {channel}
                                               ELSE dbBlacklist
                /\ dbLogs' = Append(dbLogs,
                                    LogEntry(channel, "failed",
                                             IF blacklist THEN "Blacklisted" ELSE "SendFailed"))

\* the send in flight resolves: a transient failure is retried while
\* shouldRetry says so, everything else is the final outcome
sendResult(k, outcome) ==
  /\ k \in 1..Len(schedulers)
  /\ schedulers[k].pc = "sending"
  /\ Len(dbLogs) < MaxLogEntries
  /\ IF outcome = "transient"
          /\ shouldRetry(schedulers[k].attemptNumber, schedulers[k].config.maxRetries)
       THEN /\ schedulers' = [schedulers EXCEPT
                                ![k].pc = "channel",
                                ![k].attemptNumber = schedulers[k].attemptNumber + 1]
            /\ UNCHANGED <<consecutiveFailures, dbBlacklist, dbLogs>>
       ELSE onResult(k, outcome = "success")
  /\ toast' = NoToast
  /\ UNCHANGED <<nonDispatchVars, dbGroups>>

\* the cycle delay elapses or is interrupted
cycleWait(k) ==
  /\ k \in 1..Len(schedulers)
  /\ schedulers[k].pc = "wait"
  /\ schedulers' = [schedulers EXCEPT ![k].pc = "cycle"]
  /\ toast' = NoToast
  /\ UNCHANGED <<nonDispatchVars, dbGroups, dbBlacklist, consecutiveFailures, dbLogs>>

\* the Maximum Retries values that Settings can have stored
StoredMaxRetries == {1, 3, -5}

\* The operator has connected the account, saved the settings and added two
\* groups, and has opened the page.
InitDispatch(page, isRunning) ==
  /\ currentPage = page
  /\ account = InitialAccount
  /\ loading = FALSE
  /\ verificationCode = Empty
  /\ showVerification = FALSE
  /\ twoFactorPassword = Empty
  /\ showTwoFactor = FALSE
  /\ validationErrors = << >>
  /\ accountLoadPending = FALSE
  /\ toast = NoToast
  /\ authOps = << >>
  /\ dbAccounts = <<[apiId |-> ValidApiId, apiHash |-> ValidApiHash,
                     phoneNumber |-> ValidPhone, isConnected |-> "1",
                     sessionString |-> 1, userData |-> <<[phone |-> ValidPhone]>>]>>
  /\ \E maxRetries \in StoredMaxRetries, autoBlacklist \in {"0", "1"} :
       dbSettings = <<[InitialSettings EXCEPT !.maxRetries = maxRetries,
                                              !.autoBlacklist = autoBlacklist,
                                              !.isRunning = isRunning]>>
  /\ stats = [isRunning |-> FALSE]
  /\ dashLoading = TRUE
  /\ toggles = << >>
  /\ httpResponse = NoHttpResponse
  /\ codeSentFor = {}
  /\ passwordAskedFor = {}
  /\ dbGroups = <<GroupRow(1, "1"), GroupRow(2, "1")>>
  /\ dbBlacklist = {}
  /\ consecutiveFailures = <<0, 0>>
  /\ schedulers = << >>
  /\ dbLogs = << >>
  /\ settings = InitialSettings
  /\ settingsLoading = TRUE
  /\ saving = FALSE
  /\ saveOps = << >>
  /\ dbTemplates = << >>
  /\ templates = << >>
  /\ tplLoading = TRUE
  /\ tplLoadPending = FALSE
  /\ showAddDialog = FALSE
  /\ newTemplate = InitialNewTemplate
  /\ editingTemplate = << >>
  /\ tplOps = << >>
  /\ nextTemplateId = 1

InitScheduler == InitDispatch("dashboard", "0")

InitGroups == InitDispatch("groups", "1")

\* The sender and the Dashboard: the operator starts and stops the sender
\* while the loop runs.
NextScheduler ==
  \/ loadDashboardData(TRUE)
  \/ toggleSender
  \/ \E i \in 1..Len(toggles) : toggleList(i, TRUE)
  \/ \E i \in 1..Len(toggles) : toggleWrite(i, TRUE)
  \/ startScheduler
  \/ \E k \in 1..Len(schedulers) : cycleStart(k)
  \/ \E k \in 1..Len(schedulers) : beginSend(k)
  \/ \E k \in 1..Len(schedulers), outcome \in SendOutcomes : sendResult(k, outcome)
  \/ \E k \in 1..Len(schedulers) : cycleWait(k)

SpecScheduler == InitScheduler /\ [][NextScheduler]_vars

\* The sender and Group Management: the operator switches groups off and on
\* while the loop runs.
NextGroups ==
  \/ \E groupId \in 1..Len(dbGroups), currentStatus \in {"0", "1"}, dbOk \in BOOLEAN :
       toggleGroupStatus(groupId, currentStatus, dbOk)
  \/ startScheduler
  \/ \E k \in 1..Len(schedulers) : cycleStart(k)
  \/ \E k \in 1..Len(schedulers) : beginSend(k)
  \/ \E k \in 1..Len(schedulers), outcome \in SendOutcomes : sendResult(k, outcome)
  \/ \E k \in 1..Len(schedulers) : cycleWait(k)

SpecGroups == InitGroups /\ [][NextGroups]_vars

\* the number of Blacklisted entries of a channel in messageLogs
BlacklistedEntries(g) ==
  Cardinality({i \in 1..Len(dbLogs) :
                 dbLogs[i].channelId = g /\ dbLogs[i].errorKind = "Blacklisted"})

\* the number of failed entries of a channel after its last success entry
TrailingFailures(g) ==
  LET successes == {i \in 1..Len(dbLogs) :
                      dbLogs[i].channelId = g /\ dbLogs[i].status = "success"}
      last == IF successes = {} THEN 0
                ELSE CHOOSE i \in successes : \A j \in successes : j <= i
  IN  Cardinality({i \in (last + 1)..Len(dbLogs) :
                     dbLogs[i].channelId = g /\ dbLogs[i].status = "failed"})

\* C21: consecutiveFailures of a channel counts its terminal failures since
\* its last success; a channel becomes blacklisted exactly in the step that
\* brings this count to maxRetries + 1 or more while autoBlacklist is enabled;
\* a blacklisted channel has exactly one Blacklisted log entry and every other
\* channel has none.
C21_BlacklistedExactlyAtMaxRetriesPlusOne ==
  /\ [](\A g \in 1..Len(dbGroups) :
          /\ consecutiveFailures[g] = TrailingFailures(g)
          /\ BlacklistedEntries(g) = IF g \in dbBlacklist THEN 1 ELSE 0)
  /\ [][\A g \in 1..Len(dbGroups) :
          LET reached == /\ consecutiveFailures'[g] > consecutiveFailures[g]
                         /\ dbSettings[1].autoBlacklist = "1"
                         /\ consecutiveFailures'[g] >= dbSettings[1].maxRetries + 1
          IN  (g \in dbBlacklist' /\ g \notin dbBlacklist) <=> (reached /\ g \notin dbBlacklist)]_vars

\* with maxRetries = 3 and autoBlacklist enabled a channel was blacklisted by
\* its fourth consecutive terminal failure
C21_Witness ==
  /\ dbSettings[1].maxRetries = 3
  /\ dbSettings[1].autoBlacklist = "1"
  /\ \E g \in dbBlacklist :
       /\ consecutiveFailures[g] = 4
       /\ TrailingFailures(g) = 4
       /\ BlacklistedEntries(g) = 1

\* C22: no step takes a channel off the blacklist; a step that logs a success
\* of a channel sets its consecutiveFailures to 0 and leaves the blacklist
\* as it is.
C22_BlacklistMonotonic ==
  [][/\ dbBlacklist \subseteq dbBlacklist'
     /\ (Len(dbLogs') > Len(dbLogs) /\ dbLogs'[Len(dbLogs')].status = "success")
          => /\ consecutiveFailures'[dbLogs'[Len(dbLogs')].channelId] = 0
             /\ dbBlacklist' = dbBlacklist]_vars

\* a channel was blacklisted, the operator has switched it on again, and a
\* send of a later cycle has succeeded
C22_Witness ==
  \E g \in dbBlacklist :
    /\ dbGroups[g].isActive = "1"
    /\ \E i, j \in 1..Len(dbLogs) :
         /\ i < j
         /\ dbLogs[i].channelId = g
         /\ dbLogs[i].errorKind = "Blacklisted"
         /\ dbLogs[j].status = "success"

\* C23: a send is started only in a step that finds the stored running flag
\* true, and a LogEntry is written only for the channel whose send is in
\* flight, never for a channel of the cycle that has not been attempted.
C23_NoSendAfterStop ==
  [][/\ \A k \in 1..Len(schedulers') :
          (k <= Len(schedulers) /\ schedulers'[k].pc = "sending"
             /\ schedulers[k].pc # "sending") => StorageRunning
     /\ Len(dbLogs') > Len(dbLogs)
          => \E k \in 1..Len(schedulers) :
               /\ schedulers[k].pc = "sending"
               /\ dbLogs'[Len(dbLogs')].channelId = Head(schedulers[k].queue)]_vars

\* the sender was stopped in the middle of a cycle: the loop has ended after
\* the first channel, the second channel has no LogEntry
C23_Witness ==
  /\ ~StorageRunning
  /\ schedulers = << >>
  /\ Len(dbLogs) = 1
  /\ dbLogs[1].channelId = 1
  /\ dbGroups[2].isActive = "1"

\* C24: at most one scheduler loop is active at any time.
C24_OneSchedulerPerSession == Len(schedulers) <= 1

\* a loop is sending while the precondition of a start holds
C24_Witness ==
  /\ StorageAuthenticated
  /\ StorageRunning
  /\ schedulers # << >>
  /\ schedulers[1].pc = "sending"

\* C25: the number of a send attempt in flight is at most maxRetries + 1.
C25_AtMostMaxRetriesPlusOneAttempts ==
  \A k \in 1..Len(schedulers) :
    schedulers[k].pc = "sending"
      => schedulers[k].attemptNumber <= dbSettings[1].maxRetries + 1

====
